---- MODULE Spec2Model ----
(***************************************************************************)
(* Verification model of the fleet sync engine: the redb baseline store,   *)
(* the downloader, the plan executor and engine facade, and the pipeline   *)
(* orchestrator with its event consumer.                                   *)
(*                                                                         *)
(* Strings are sequences of one-character strings, so that path            *)
(* normalisation, validation, extension replacement and cache-key          *)
(* construction are computed the way the code computes them.               *)
(***************************************************************************)
EXTENDS Naturals, Integers, Sequences, FiniteSets, TLC

VARIABLES
    \* ---- baseline store (fleet-persistence/src/redb_store.rs)
    db,          \* committed contents of fleet.redb: what every read transaction sees
    tx,          \* the open write transaction's staged contents (an Option)
    storeCall,   \* the store call in progress (arguments and position), or IdleCall
    storePre,    \* history: the committed contents when the call began
    storeRet,    \* result of the last finished store call
    legacy,      \* legacy JSON artifacts present under the root
    clock,       \* Utc::now(), as a counter
    \* ---- downloader (fleet-infra/src/net/mod.rs)
    dlReqs,      \* the batch given to download_batch
    dlConc,      \* Downloader::concurrency
    paths,       \* directory entries: path -> inode
    inodes,      \* inode -> file contents
    dl,          \* per request: position in download_single, attempt, handle, success
    dlPre,       \* history: the contents at every path when the batch began
    dlEvents,    \* history: per request id, the DownloadEvents sent on progress_tx
    \* ---- plan executor and engine facade (fleet-pipeline/src/sync)
    engCall,     \* the engine call: operation, plan, remote manifest argument
    engPc,       \* position of the call in execute_with_plan_internal and execute
    engK,        \* index of the next action of the executor's current loop
    stats,       \* SyncStats of the executor
    execRet,     \* what DefaultPlanExecutor::execute returned
    engRet,      \* what the engine call returned
    manifestFile,\* .fleet-local-manifest.json (an Option)
    summaryFile, \* .fleet-local-summary.json (an Option)
    engPre,      \* history: files, manifest and summary when the call began
    renLog,      \* history: calls, waits and result of the last robust_rename
    \* ---- orchestrator and event consumer (fleet-app-core)
    runs,        \* per run, by run id: kind, worker position, cancellation token, events sent
    orchCancel,  \* PipelineOrchestrator::cancel: the run whose token it holds (an Option)
    chan,        \* the DomainEvent channel from the workers and the app to the consumer
    app,         \* AppState: pipeline.run_id, last_plan, step statuses, error
    cancels,     \* calls of cancel_pipeline so far
    got,         \* history, by run id: terminal events the consumer received
    applied,     \* history: <<event run id, current run id>> of every event reduced
    moves,       \* history: <<from, to>> of every step status change after Started
    \* ---- differ (fleet-core/src/diff.rs)
    diffRemote,  \* the remote manifest handed to diff
    diffLocal,   \* the local manifest handed to diff
    diffPlan,    \* the SyncPlan diff returned (an Option)
    \* ---- planning functions of the engine (fleet-pipeline/src/sync/engine.rs)
    fnCall,      \* the function called and its arguments
    fnPc,        \* "call" until the function has returned, then "done"
    fnRet,       \* what the function returned
    \* ---- local state and sync round trips (fleet-pipeline/src/sync, fleet-scanner)
    tree,        \* the local root: path -> mtime, size and content hash of the file
    scanCache,   \* the scan cache: path -> FileCacheEntry
    baseManifest,\* the baseline manifest the ManifestStore holds (an Option)
    baseSummary, \* the baseline summary the ManifestStore holds (an Option)
    syncRemote,  \* the manifest the repository serves
    syncLast,    \* history: the last engine or provider call and what it returned
    fsNow        \* the file system's clock, as a counter

storeVars == <<db, tx, storeCall, storePre, storeRet, legacy, clock>>
dlVars == <<dlReqs, dlConc, paths, inodes, dl, dlPre, dlEvents>>
engVars == <<engCall, engPc, engK, stats, execRet, engRet, manifestFile, summaryFile, engPre, renLog>>

orchVars == <<runs, orchCancel, chan, app, cancels, got, applied, moves>>

diffVars == <<diffRemote, diffLocal, diffPlan>>

planVars == <<fnCall, fnPc, fnRet>>

syncVars == <<tree, scanCache, baseManifest, baseSummary, syncRemote, syncLast, fsNow>>

VARIABLES
    redbFiles,    \* every file fleet.redb has ever been, by identity (an index)
    redbPath,     \* the file now at root/fleet.redb, 0 when the path does not exist
    corruptFiles, \* the files renamed to fleet.redb.corrupt.*
    db_cache,     \* the Database the process-wide cache holds for the path, 0 for none
    otherProcess, \* the file another process holds open, 0 for none
    thr,          \* per thread: the store operation it runs and where it is
    acked,        \* history: the cache updates whose call returned Ok
    openClock     \* store operations started so far

openVars == <<redbFiles, redbPath, corruptFiles, db_cache, otherProcess, thr, acked, openClock>>

VARIABLES
    kvCache,      \* the scan_cache table: key bytes -> FileCacheEntry
    kvManifest,   \* the baseline manifest the store holds (an Option)
    kvSummary,    \* the baseline summary the store holds (an Option)
    kvLast,       \* history: the last store call, its arguments, result and the table before it
    kvClock       \* store calls so far

kvVars == <<kvCache, kvManifest, kvSummary, kvLast, kvClock>>

VARIABLES
    heldPlan,     \* the plan a caller got from plan() and the manifest it was computed from (an Option)
    staleLast     \* history: the last engine call on a held or fresh plan and how it ended

staleVars == <<heldPlan, staleLast>>

VARIABLES
    trkPlan,      \* the sizes of plan.downloads, by index
    trkDl,        \* per download_single of the batch: where it is, its attempt, its success
    trkChan,      \* the progress channel: the events sent and not yet received
    tracker,      \* the ProgressTracker
    trkFed        \* history: the ids whose Started and whose Completed the tracker received

trkVars == <<trkPlan, trkDl, trkChan, tracker, trkFed>>

vars == <<storeVars, dlVars, engVars, orchVars, diffVars, planVars, syncVars, openVars, kvVars, staleVars, trkVars>>

\* a component no specification is exercising rests in its idle state
NoFiles == [p \in {} |-> 0]

DlIdle ==
    /\ dlReqs = <<>>
    /\ dlConc = 1
    /\ paths = NoFiles
    /\ inodes = <<>>
    /\ dl = <<>>
    /\ dlPre = NoFiles
    /\ dlEvents = <<>>

NoResult == [kind |-> "None", tag |-> "None"]
NoStats == [files_planned_download |-> 0, files_deleted |-> 0, mods_deleted |-> 0, renames |-> 0]
NoPlan == [deletes |-> <<>>, renames |-> <<>>, downloads |-> <<>>]
NoRename == [ok |-> FALSE, calls |-> 0, waits |-> <<>>]

EngIdle ==
    /\ engCall = [op |-> "None", plan |-> NoPlan, remote_manifest |-> <<>>]
    /\ engPc = "idle"
    /\ engK = 1
    /\ stats = NoStats
    /\ execRet = NoResult
    /\ engRet = NoResult
    /\ manifestFile = <<>>
    /\ summaryFile = <<>>
    /\ engPre = [files |-> NoFiles, manifest |-> <<>>, summary |-> <<>>]
    /\ renLog = NoRename

\* PipelineState::idle
IdlePipeline ==
    [run_id |-> <<>>, last_plan |-> FALSE, error |-> FALSE,
     steps |-> [st \in {"Fetch", "Scan", "Diff", "Execute"} |-> "Pending"]]

OrchIdle ==
    /\ runs = <<>>
    /\ orchCancel = <<>>
    /\ chan = <<>>
    /\ app = IdlePipeline
    /\ cancels = 0
    /\ got = <<>>
    /\ applied = {}
    /\ moves = {}

DiffIdle ==
    /\ diffRemote = <<>>
    /\ diffLocal = <<>>
    /\ diffPlan = <<>>

PlanIdle ==
    /\ fnCall = [op |-> "None"]
    /\ fnPc = "idle"
    /\ fnRet = [kind |-> "None"]

SyncIdle ==
    /\ tree = NoFiles
    /\ scanCache = NoFiles
    /\ baseManifest = <<>>
    /\ baseSummary = <<>>
    /\ syncRemote = <<>>
    /\ syncLast = [op |-> "None"]
    /\ fsNow = 0

OpenIdle ==
    /\ redbFiles = <<>>
    /\ redbPath = 0
    /\ corruptFiles = {}
    /\ db_cache = 0
    /\ otherProcess = 0
    /\ thr = <<>>
    /\ acked = {}
    /\ openClock = 0

KvIdle ==
    /\ kvCache = NoFiles
    /\ kvManifest = <<>>
    /\ kvSummary = <<>>
    /\ kvLast = [op |-> "None"]
    /\ kvClock = 0

\* no plan is held and no call was made (the stale-plan variables)
StaleIdle ==
    /\ heldPlan = <<>>
    /\ staleLast = [op |-> "None", kind |-> "None", committed |-> FALSE, planned |-> <<>>]

\* no batch and a tracker that was not built (the progress tracker variables)
TrkIdle ==
    /\ trkPlan = <<>>
    /\ trkDl = <<>>
    /\ trkChan = <<>>
    /\ tracker = <<>>
    /\ trkFed = [started |-> {}, completed |-> {}]

nonStoreVars == <<dlVars, engVars, orchVars, diffVars, planVars, syncVars, openVars, kvVars, staleVars, trkVars>>
nonDlVars == <<storeVars, engVars, orchVars, diffVars, planVars, syncVars, openVars, kvVars, staleVars, trkVars>>
nonEngVars == <<storeVars, orchVars, diffVars, planVars, syncVars, openVars, kvVars, staleVars, trkVars>>
nonOrchVars == <<storeVars, dlVars, engVars, diffVars, planVars, syncVars, openVars, kvVars, staleVars, trkVars>>
nonDiffVars == <<storeVars, dlVars, engVars, orchVars, planVars, syncVars, openVars, kvVars, staleVars, trkVars>>
nonPlanVars == <<storeVars, dlVars, engVars, orchVars, diffVars, syncVars, openVars, kvVars, staleVars, trkVars>>
nonSyncVars == <<storeVars, dlVars, engVars, orchVars, diffVars, planVars, openVars, kvVars, staleVars, trkVars>>
nonOpenVars == <<storeVars, dlVars, engVars, orchVars, diffVars, planVars, syncVars, kvVars, staleVars, trkVars>>
nonKvVars == <<storeVars, dlVars, engVars, orchVars, diffVars, planVars, syncVars, openVars, staleVars, trkVars>>
nonStaleVars == <<storeVars, dlVars, engVars, orchVars, diffVars, planVars, syncVars, openVars, kvVars, trkVars>>
nonTrkVars == <<storeVars, dlVars, engVars, orchVars, diffVars, planVars, syncVars, openVars, kvVars, staleVars>>

----------------------------------------------------------------------------
(* Characters and strings *)

\* The characters the model uses, in ascending byte order.
Alphabet == <<"NUL", "SOH", ".", "/", ":", "@", "A", "\\", "a", "b", "p", "r", "t", "x">>

Ord(c) == CHOOSE i \in 1..Len(Alphabet) : Alphabet[i] = c

\* Option values: NoneV, or Some(x) read back with Get
NoneV == <<>>
Some(x) == <<x>>
Get(o) == o[1]

RECURSIVE ReplaceChar(_, _, _)
ReplaceChar(s, from, to) ==
    IF s = <<>> THEN <<>>
    ELSE <<IF Head(s) = from THEN to ELSE Head(s)>> \o ReplaceChar(Tail(s), from, to)

Contains(s, c) == \E i \in 1..Len(s) : s[i] = c

\* str::starts_with
StartsWith(s, pre) ==
    /\ Len(pre) <= Len(s)
    /\ SubSeq(s, 1, Len(pre)) = pre

\* str::contains for a substring
ContainsSub(s, sub) ==
    \E i \in 1..(Len(s) + 1) :
        /\ i + Len(sub) - 1 <= Len(s)
        /\ SubSeq(s, i, i + Len(sub) - 1) = sub

\* str::split(sep): the sequence of segments
RECURSIVE SplitAcc(_, _, _)
SplitAcc(s, sep, cur) ==
    IF s = <<>> THEN <<cur>>
    ELSE IF Head(s) = sep THEN <<cur>> \o SplitAcc(Tail(s), sep, <<>>)
    ELSE SplitAcc(Tail(s), sep, Append(cur, Head(s)))

Split(s, sep) == SplitAcc(s, sep, <<>>)

\* byte-wise lexicographic order of two strings (a < b)
RECURSIVE LexLess(_, _)
LexLess(a, b) ==
    IF b = <<>> THEN FALSE
    ELSE IF a = <<>> THEN TRUE
    ELSE IF Head(a) = Head(b) THEN LexLess(Tail(a), Tail(b))
    ELSE Ord(Head(a)) < Ord(Head(b))

----------------------------------------------------------------------------
(* Paths: fleet-core path_utils and fleet-persistence paths *)

FleetPathNormalize(path) == ReplaceChar(path, "\\", "/")

\* fleet-persistence validate_relative_path: TRUE iff the path is accepted
StoreValidateRelativePath(path) ==
    /\ ~ \E i \in 1..Len(Split(path, "/")) :
            Split(path, "/")[i] \in {<<".", ".">>, <<".">>}
    /\ ~ StartsWith(path, <<"/">>)
    /\ ~ StartsWith(path, <<"\\">>)
    /\ ~ (Len(path) > 1 /\ path[2] = ":")

\* normalization without the validation
normalize_unvalidated(rel_path) == [ok |-> TRUE, val |-> FleetPathNormalize(rel_path)]
\* normalize_rel_path: Ok(normalized), or Err(InvalidPath)
normalize_rel_path(rel_path) ==
    IF StoreValidateRelativePath(FleetPathNormalize(rel_path))
    THEN [ok |-> TRUE, val |-> FleetPathNormalize(rel_path)]
    ELSE [ok |-> FALSE, val |-> <<>>]

----------------------------------------------------------------------------
(* Cache keys: fleet-persistence cache_key.rs *)

CACHE_KEY_SEPARATOR == "NUL"

validate_mod_name(mod_name) == ~ Contains(mod_name, CACHE_KEY_SEPARATOR)

CacheKeyToBytes(mod_name, rel_path) == mod_name \o <<CACHE_KEY_SEPARATOR>> \o rel_path

prefix_for_mod(mod_name) == mod_name \o <<CACHE_KEY_SEPARATOR>>

\* a range that starts at the mod name itself and ends after every byte
range_without_separator(mod_name) ==
    [start |-> mod_name, end |-> mod_name \o <<Alphabet[Len(Alphabet)]>>]
\* range_for_mod: the half-open key range [start, end)
range_for_mod(mod_name) ==
    [start |-> prefix_for_mod(mod_name),
     end   |-> mod_name \o <<Alphabet[Ord(CACHE_KEY_SEPARATOR) + 1]>>]

InRange(key, range) ==
    /\ ~ LexLess(key, range.start)
    /\ LexLess(key, range.end)

----------------------------------------------------------------------------
(* Baseline store: fleet-persistence redb_store.rs *)

MaxStoreCalls == 2   \* store calls per behaviour
MaxOps == 2          \* cache records (deletes + renames + upserts) per commit

Ok == "Ok"
InvalidPath == "InvalidPath"
BackendError == "Backend"

ModA == <<"@", "a">>
ModB == <<"@", "b">>
ModNul == <<"@", "NUL">>

RelX == <<"x">>
RelBackslash == <<"p", "\\", "x">>
RelTraversal == <<".", ".", "/", "x">>

\* FileCacheEntry values (mtime, size, checksum)
EntryOld == [mtime |-> 1, size |-> 1, checksum |-> <<"A">>]
EntryNew == [mtime |-> 2, size |-> 2, checksum |-> <<"b">>]

File(path, checksum, parts) == [path |-> path, checksum |-> checksum, parts |-> parts]
Mod(name, files) == [name |-> name, files |-> files]

ManifestOne == <<Mod(ModA, <<File(RelX, <<"A">>, <<>>)>>)>>
ManifestTwo == <<Mod(ModA, <<File(RelBackslash, <<"b">>, <<RelBackslash>>)>>)>>
ManifestBadPart == <<Mod(ModA, <<File(RelX, <<"A">>, <<RelTraversal>>)>>)>>

FileSummary(rel, e) ==
    [rel_path |-> rel, mtime |-> e.mtime, size |-> e.size, checksum |-> e.checksum]
ModSummary(name, files) == [mod_name |-> name, files |-> files]

SummaryOne == <<ModSummary(ModA, <<FileSummary(RelX, EntryOld)>>)>>
SummaryTwo == <<ModSummary(ModA, <<FileSummary(RelBackslash, EntryNew)>>)>>
SummaryBad == <<ModSummary(ModA, <<FileSummary(RelTraversal, EntryOld)>>)>>

\* (manifest, summary) arguments of a commit
BaselineArgs ==
    { <<ManifestOne, SummaryOne>>, <<ManifestTwo, SummaryTwo>>,
      <<ManifestBadPart, SummaryOne>>, <<ManifestOne, SummaryBad>> }

UpsertRec(m, rel, e) == [mod_name |-> m, rel_path |-> rel, mtime |-> e.mtime,
                         size |-> e.size, checksum |-> e.checksum]
\* rel_path is an Option: NoneV deletes the whole mod
DeleteRec(m, rel) == [mod_name |-> m, rel_path |-> rel]
RenameRec(m, old, new) == [mod_name |-> m, old_rel_path |-> old, new_rel_path |-> new]

UpsertRecs == { UpsertRec(ModA, RelX, EntryNew), UpsertRec(ModA, RelTraversal, EntryNew) }
DeleteRecs == { DeleteRec(ModA, NoneV), DeleteRec(ModNul, Some(RelX)) }
RenameRecs == { RenameRec(ModA, RelX, RelBackslash), RenameRec(ModA, RelX, RelTraversal),
                RenameRec(ModA, RelX, RelX) }

SeqsUpTo(S, n) == UNION { [1..m -> S] : m \in 0..n }

EmptyCache == [k \in {} |-> EntryOld]

CachePut(c, key, v) == [k \in (DOMAIN c) \cup {key} |-> IF k = key THEN v ELSE c[k]]
CacheRemove(c, key) == [k \in (DOMAIN c) \ {key} |-> c[k]]

\* the database before fleet.redb exists; last_sync_at 0 stands for an absent key
MissingDb ==
    [exists |-> FALSE, manifest |-> NoneV, summary |-> NoneV, cache |-> EmptyCache,
     last_sync_at |-> 0, last_repair_at |-> 0]

\* what a reader can load: baseline manifest, baseline summary, last_sync_at, scan cache
Visible(d) ==
    [manifest |-> d.manifest, summary |-> d.summary, cache |-> d.cache,
     last_sync_at |-> d.last_sync_at]

\* normalize_manifest: every file path and part path through normalize_rel_path
ManifestPathsOk(manifest) ==
    \A i \in 1..Len(manifest) : \A j \in 1..Len(manifest[i].files) :
        /\ normalize_rel_path(manifest[i].files[j].path).ok
        /\ \A p \in 1..Len(manifest[i].files[j].parts) :
              normalize_rel_path(manifest[i].files[j].parts[p]).ok

normalize_manifest(manifest) ==
    IF ~ ManifestPathsOk(manifest) THEN [ok |-> FALSE, val |-> <<>>]
    ELSE [ok |-> TRUE, val |->
          [i \in 1..Len(manifest) |->
            [manifest[i] EXCEPT !.files =
                [j \in 1..Len(manifest[i].files) |->
                    [manifest[i].files[j] EXCEPT
                        !.path = normalize_rel_path(manifest[i].files[j].path).val,
                        !.parts = [p \in 1..Len(manifest[i].files[j].parts) |->
                                     normalize_rel_path(manifest[i].files[j].parts[p]).val]]]]]]

SummaryPathsOk(summary) ==
    \A i \in 1..Len(summary) : \A j \in 1..Len(summary[i].files) :
        normalize_rel_path(summary[i].files[j].rel_path).ok

normalize_summary(summary) ==
    IF ~ SummaryPathsOk(summary) THEN [ok |-> FALSE, val |-> <<>>]
    ELSE [ok |-> TRUE, val |->
          [i \in 1..Len(summary) |->
            [summary[i] EXCEPT !.files =
                [j \in 1..Len(summary[i].files) |->
                    [summary[i].files[j] EXCEPT
                        !.rel_path = normalize_rel_path(summary[i].files[j].rel_path).val]]]]]

\* ensure_schema on first open: the file and its tables exist afterwards
open_or_create(d) == [d EXCEPT !.exists = TRUE]

StageErr == [ok |-> FALSE, cache |-> EmptyCache]
StageOk(c) == [ok |-> TRUE, cache |-> c]

\* one cache delete of commit_sync_snapshot applied to the staged cache
StageDelete(c, del) ==
    IF ~ validate_mod_name(del.mod_name) THEN StageErr
    ELSE IF del.rel_path # NoneV
         THEN IF ~ normalize_rel_path(Get(del.rel_path)).ok THEN StageErr
              ELSE StageOk(CacheRemove(c, CacheKeyToBytes(del.mod_name,
                                          normalize_rel_path(Get(del.rel_path)).val)))
         ELSE StageOk([k \in {key \in DOMAIN c : ~ InRange(key, range_for_mod(del.mod_name))}
                        |-> c[k]])

\* one cache rename of commit_sync_snapshot: insert under the new key, then remove the old key
StageRename(c, ren) ==
    IF ~ validate_mod_name(ren.mod_name) THEN StageErr
    ELSE IF ~ normalize_rel_path(ren.old_rel_path).ok THEN StageErr
    ELSE IF ~ normalize_rel_path(ren.new_rel_path).ok THEN StageErr
    ELSE LET old_key == CacheKeyToBytes(ren.mod_name, normalize_rel_path(ren.old_rel_path).val)
             new_key == CacheKeyToBytes(ren.mod_name, normalize_rel_path(ren.new_rel_path).val)
         IN  IF old_key \in DOMAIN c
             THEN StageOk(CacheRemove(CachePut(c, new_key, c[old_key]), old_key))
             ELSE StageOk(c)

\* one cache upsert of commit_sync_snapshot
StageUpsert(c, up) ==
    IF ~ validate_mod_name(up.mod_name) THEN StageErr
    ELSE IF ~ normalize_rel_path(up.rel_path).ok THEN StageErr
    ELSE StageOk(CachePut(c, CacheKeyToBytes(up.mod_name, normalize_rel_path(up.rel_path).val),
                          [mtime |-> up.mtime, size |-> up.size, checksum |-> up.checksum]))

\* the staged cache after the k-th record of the current loop
StageOp(c, call) ==
    CASE call.phase = "deletes" -> StageDelete(c, call.deletes[call.k])
      [] call.phase = "renames" -> StageRename(c, call.renames[call.k])
      [] call.phase = "updates" -> StageUpsert(c, call.updates[call.k])

PhaseList(call, phase) ==
    CASE phase = "deletes" -> call.deletes
      [] phase = "renames" -> call.renames
      [] phase = "updates" -> call.updates
      [] OTHER -> <<>>

\* the position after `phase`: the first record of the next non-empty loop, or meta
NextPhase(call, phase) ==
    LET order == <<"baseline", "deletes", "renames", "updates", "meta">>
        at == CHOOSE i \in 1..Len(order) : order[i] = phase
        later == { i \in (at + 1)..Len(order) :
                     order[i] = "meta" \/ Len(PhaseList(call, order[i])) > 0 }
    IN  order[CHOOSE i \in later : \A j \in later : i <= j]

Advance(call) ==
    IF call.phase \in {"deletes", "renames", "updates"}
       /\ call.k < Len(PhaseList(call, call.phase))
    THEN [call EXCEPT !.k = call.k + 1]
    ELSE [call EXCEPT !.phase = NextPhase(call, call.phase), !.k = 1]

\* a write transaction dropped without commit: nothing it staged becomes visible
AbortTxLeaksStaged(d, t) == [t EXCEPT !.exists = d.exists]
AbortTx(d, t) == d

\* write_tx.commit(): everything staged becomes visible at once
CommitTx(d, t) == t

IdleCall ==
    [op |-> "Idle", manifest |-> <<>>, summary |-> <<>>, updates |-> <<>>, deletes |-> <<>>,
     renames |-> <<>>, phase |-> "idle", k |-> 1]

\* the staged contents after every statement of a commit_sync_snapshot call
RECURSIVE FullyStaged(_, _)
FullyStaged(t, call) ==
    CASE call.phase = "baseline" ->
            FullyStaged([t EXCEPT !.manifest = Some(normalize_manifest(call.manifest).val),
                                  !.summary = Some(normalize_summary(call.summary).val)],
                        Advance(call))
      [] call.phase = "meta" -> t
      [] OTHER ->
            FullyStaged([t EXCEPT !.cache = StageOp(t.cache, call).cache], Advance(call))

\* what a commit_sync_snapshot call asks for: the contents visible once all of it applied
Wanted(pre, call, now) ==
    Visible([FullyStaged(pre, [call EXCEPT !.phase = "baseline", !.k = 1])
                EXCEPT !.last_sync_at = now])

\* the mods named by the cache records of a commit_sync_snapshot call
touched_mods(call) ==
    { call.updates[i].mod_name : i \in 1..Len(call.updates) }
    \cup { call.deletes[i].mod_name : i \in 1..Len(call.deletes) }
    \cup { call.renames[i].mod_name : i \in 1..Len(call.renames) }

LegacyBaseline == { <<".fleet-local-manifest.json">>, <<".fleet-local-summary.json">> }
LegacyModCache(mod_name) == mod_name \o <<"/", ".fleet-cache.json">>

\* cleanup_legacy_artifacts with Some(touched_mods): removal errors are ignored
cleanup_legacy_artifacts(present, mods) ==
    present \ (LegacyBaseline \cup { LegacyModCache(m) : m \in mods })

\* what a finished call leaves for inspection: its name, its result, whether its
\* transaction had staged a change, where it stopped, and the contents it asked for
StoreReturn(call, res, staged, want) ==
    [op |-> call.op, res |-> res, staged |-> staged, phase |-> call.phase, want |-> want]

NoRet == StoreReturn(IdleCall, "None", FALSE, Visible(MissingDb))

StoreIdle ==
    /\ db = MissingDb
    /\ tx = NoneV
    /\ storeCall = IdleCall
    /\ storePre = MissingDb
    /\ storeRet = NoRet
    /\ legacy = LegacyBaseline \cup {LegacyModCache(ModA), LegacyModCache(ModB)}
    /\ clock = 0

StoreInit == StoreIdle /\ DlIdle /\ EngIdle /\ OrchIdle /\ DiffIdle /\ PlanIdle /\ SyncIdle /\ OpenIdle /\ KvIdle /\ StaleIdle /\ TrkIdle

\* scan_cache_upsert_batch: one write transaction over the entries of one mod
scan_cache_upsert_batch(mod_name, rel, entry) ==
    /\ storeCall.op = "Idle"
    /\ clock < MaxStoreCalls
    /\ clock' = clock + 1
    /\ UNCHANGED nonStoreVars
    /\ storePre' = db
    /\ UNCHANGED legacy
    /\ tx' = NoneV
    /\ storeCall' = IdleCall
    /\ LET call == [IdleCall EXCEPT !.op = "scan_cache_upsert_batch"]
           staged == StageUpsert(db.cache, UpsertRec(mod_name, rel, entry))
       IN  IF ~ validate_mod_name(mod_name)
           THEN /\ db' = db
                /\ storeRet' = StoreReturn(call, InvalidPath, FALSE, Visible(db))
           ELSE IF ~ staged.ok
           THEN /\ db' = AbortTx(open_or_create(db), open_or_create(db))
                /\ storeRet' = StoreReturn(call, InvalidPath, FALSE, Visible(db))
           ELSE /\ db' = CommitTx(db, [open_or_create(db) EXCEPT !.cache = staged.cache])
                /\ storeRet' = StoreReturn(call, Ok, TRUE, Visible(db'))

\* commit_sync_snapshot up to begin_write: open_or_create, normalize_manifest,
\* normalize_summary
CommitSyncBegin(manifest, summary, updates, deletes, renames) ==
    /\ storeCall.op = "Idle"
    /\ clock < MaxStoreCalls
    /\ clock' = clock + 1
    /\ storePre' = open_or_create(db)
    /\ UNCHANGED nonStoreVars
    /\ UNCHANGED legacy
    /\ db' = open_or_create(db)
    /\ LET call == [op |-> "commit_sync_snapshot", manifest |-> manifest, summary |-> summary,
                    updates |-> updates, deletes |-> deletes, renames |-> renames,
                    phase |-> "baseline", k |-> 1]
       IN  IF ~ normalize_manifest(manifest).ok \/ ~ normalize_summary(summary).ok
           THEN /\ storeRet' = StoreReturn(call, InvalidPath, FALSE, Visible(db))
                /\ storeCall' = IdleCall
                /\ tx' = NoneV
           ELSE /\ storeRet' = NoRet
                /\ storeCall' = call
                /\ tx' = Some(open_or_create(db))

\* one statement of the write transaction of commit_sync_snapshot
CommitSyncStage ==
    /\ storeCall.op = "commit_sync_snapshot"
    /\ storeCall.phase \in {"baseline", "deletes", "renames", "updates", "meta"}
    /\ UNCHANGED <<storePre, legacy, clock, nonStoreVars>>
    /\ CASE storeCall.phase = "baseline" ->
              /\ tx' = Some([Get(tx) EXCEPT
                                !.manifest = Some(normalize_manifest(storeCall.manifest).val),
                                !.summary = Some(normalize_summary(storeCall.summary).val)])
              /\ storeCall' = Advance(storeCall)
              /\ UNCHANGED <<db, storeRet>>
         [] storeCall.phase = "meta" ->
              /\ tx' = Some([Get(tx) EXCEPT !.last_sync_at = clock])
              /\ storeCall' = [storeCall EXCEPT !.phase = "commit"]
              /\ UNCHANGED <<db, storeRet>>
         [] OTHER ->
              IF ~ StageOp(Get(tx).cache, storeCall).ok
              THEN /\ db' = AbortTx(db, Get(tx))
                   /\ tx' = NoneV
                   /\ storeRet' = StoreReturn(storeCall, InvalidPath,
                                              Visible(Get(tx)) # Visible(db), Visible(db))
                   /\ storeCall' = IdleCall
              ELSE /\ tx' = Some([Get(tx) EXCEPT
                                    !.cache = StageOp(Get(tx).cache, storeCall).cache])
                   /\ storeCall' = Advance(storeCall)
                   /\ UNCHANGED <<db, storeRet>>

\* write_tx.commit() of commit_sync_snapshot, succeeding or failing in the backend
CommitSyncCommit ==
    /\ storeCall.op = "commit_sync_snapshot"
    /\ storeCall.phase = "commit"
    /\ UNCHANGED <<storePre, clock, nonStoreVars>>
    /\ storeCall' = IdleCall
    /\ tx' = NoneV
    /\ \/ /\ db' = CommitTx(db, Get(tx))
          /\ legacy' = cleanup_legacy_artifacts(legacy, touched_mods(storeCall))
          /\ storeRet' = StoreReturn(storeCall, Ok, TRUE, Wanted(storePre, storeCall, clock))
       \/ /\ db' = AbortTx(db, Get(tx))
          /\ UNCHANGED legacy
          /\ storeRet' = StoreReturn(storeCall, BackendError, TRUE, Wanted(storePre, storeCall, clock))

CommitArgs ==
    { a \in BaselineArgs \X SeqsUpTo(UpsertRecs, MaxOps) \X SeqsUpTo(DeleteRecs, MaxOps)
            \X SeqsUpTo(RenameRecs, MaxOps) :
        Len(a[2]) + Len(a[3]) + Len(a[4]) <= MaxOps }

StoreNext ==
    \/ \E m \in {ModA, ModB, ModNul}, rel \in {RelX, RelTraversal} :
          scan_cache_upsert_batch(m, rel, EntryOld)
    \/ \E a \in CommitArgs : CommitSyncBegin(a[1][1], a[1][2], a[2], a[3], a[4])
    \/ CommitSyncStage
    \/ CommitSyncCommit

SpecStore == StoreInit /\ [][StoreNext]_vars

\* C1: commit_sync_snapshot is all-or-nothing. While the call runs and after it
\* returned an error, the baseline manifest, the baseline summary, last_sync_at and
\* every scan_cache entry are those of before the call, and so is everything a reader
\* loaded meanwhile; after Ok the new manifest, the new summary, last_sync_at and
\* every cache delete, rename and upsert are visible together.
C1_CommitAllOrNothing ==
    /\ storeCall.op = "commit_sync_snapshot" =>
          Visible(db) = Visible(storePre)
    /\ (storeRet.op = "commit_sync_snapshot" /\ storeRet.res # Ok) =>
          Visible(db) = Visible(storePre)
    /\ (storeRet.op = "commit_sync_snapshot" /\ storeRet.res = Ok) =>
          Visible(db) = storeRet.want

\* an InvalidPath error in a cache upsert, after the transaction had staged a new
\* baseline and a delete over a store that already held cache entries
C1_Witness ==
    /\ storeRet.op = "commit_sync_snapshot"
    /\ storeRet.res = InvalidPath
    /\ storeRet.staged
    /\ storeRet.phase = "updates"
    /\ DOMAIN db.cache # {}

----------------------------------------------------------------------------
(* Downloader: fleet-infra net/mod.rs *)

MaxBatch == 2         \* requests per batch
MaxConcurrency == 2   \* largest Downloader::concurrency tried
MaxAttempts == 3      \* for _attempt in 0..3

LastIndexOf(s, c) ==
    LET at == { i \in 1..Len(s) : s[i] = c }
    IN  IF at = {} THEN 0 ELSE CHOOSE i \in at : \A j \in at : j <= i

\* Utf8Path::with_extension: the extension of the file name is replaced, or added
\* when the file name has none; a path without a file name is returned unchanged
with_extension(path, ext) ==
    LET start == LastIndexOf(path, "/") + 1
        name == SubSeq(path, start, Len(path))
        dot == LastIndexOf(name, ".")
        stem == IF dot > 1 THEN SubSeq(name, 1, dot - 1) ELSE name
    IN  IF name = <<>> \/ name = <<".", ".">> THEN path
        ELSE SubSeq(path, 1, start - 1) \o stem \o <<".">> \o ext

PartExt == <<"p", "a", "r", "t">>

\* let tmp_path = req.target_path.with_extension("part")
TmpPath(req) == with_extension(req.target_path, PartExt)

TgtAP == <<"@", "a", "/", "a", ".", "p">>
TgtAT == <<"@", "a", "/", "a", ".", "t">>
TgtB == <<"@", "a", "/", "b">>
TgtPart == <<"@", "a", "/", "a", ".", "p", "a", "r", "t">>
DlTargets == { TgtAP, TgtAT, TgtB, TgtPart }

\* file contents: the bytes a url serves in full ("good"), bytes of a corrupt
\* response ("bad"), a truncated file ("empty"), a broken stream ("partial"), or what
\* was on disk before the batch ("old", src 0)
Bytes(src, state) == [src |-> src, state |-> state]
OldBytes == Bytes(0, "old")

\* compute_file_checksum: an upper-case hex digest ({:X}) of the contents
compute_file_checksum(content) ==
    IF content.state = "good" THEN [k \in 1..content.src |-> "A"] ELSE <<"B">>

\* the manifest's checksum of the file request id downloads, in lower case
ManifestChecksum(id) == [k \in 1..id |-> "a"]

to_ascii_uppercase(c) ==
    CASE c = "a" -> "A" [] c = "b" -> "B" [] c = "p" -> "P" [] c = "r" -> "R"
      [] c = "t" -> "T" [] c = "x" -> "X" [] OTHER -> c

eq_ignore_ascii_case(a, b) ==
    /\ Len(a) = Len(b)
    /\ \A i \in 1..Len(a) : to_ascii_uppercase(a[i]) = to_ascii_uppercase(b[i])

DownloadRequest(id, target, checksum) ==
    [id |-> id, target_path |-> target, expected_checksum |-> checksum]

\* batches of requests with pairwise distinct targets, all with or all without an
\* expected checksum
DlBatches ==
    { [i \in 1..n |-> DownloadRequest(i, t[i], IF c THEN Some(ManifestChecksum(i)) ELSE NoneV)] :
        <<n, t, c>> \in { x \in (1..MaxBatch) \X SeqsUpTo(DlTargets, MaxBatch) \X BOOLEAN :
                            /\ Len(x[2]) = x[1]
                            /\ \A i, j \in 1..x[1] : i # j => x[2][i] # x[2][j] } }

Exists(path) == path \in DOMAIN paths
ContentAt(path) == inodes[paths[path]]

\* the contents at every path, absent paths left out
Snapshot == [p \in DOMAIN paths |-> inodes[paths[p]]]

DlState(pc, attempt, handle, success) ==
    [pc |-> pc, attempt |-> attempt, handle |-> handle, success |-> success]

InFlight == { i \in 1..Len(dl) : dl[i].pc \notin {"queued", "done"} }

\* download_batch is called: the targets are all on disk already, or none is
DlInit ==
    /\ StoreIdle
    /\ EngIdle
    /\ OrchIdle
    /\ DiffIdle
    /\ PlanIdle
    /\ SyncIdle /\ OpenIdle /\ KvIdle /\ StaleIdle /\ TrkIdle
    /\ dlReqs \in DlBatches
    /\ dlConc \in 1..MaxConcurrency
    /\ \E present \in BOOLEAN :
         /\ paths = [p \in IF present THEN { dlReqs[i].target_path : i \in 1..Len(dlReqs) }
                                      ELSE {} |->
                        CHOOSE i \in 1..Len(dlReqs) : dlReqs[i].target_path = p]
         /\ inodes = IF present THEN [i \in 1..Len(dlReqs) |-> OldBytes] ELSE <<>>
    /\ dl = [i \in 1..Len(dlReqs) |-> DlState("queued", 1, 0, FALSE)]
    /\ dlPre = [p \in DOMAIN paths |-> OldBytes]
    /\ dlEvents = [i \in 1..Len(dlReqs) |-> <<>>]

\* t.send(event).await on progress_tx, for request id i
Send(i, evs) == dlEvents' = [dlEvents EXCEPT ![i] = @ \o evs]

\* a chunk loop that announced the download again on every attempt
ChunkEventsWithStarted(progress) ==
    <<"Started">> \o (IF progress THEN <<"Progress">> ELSE <<>>)

\* what one pass of the chunk loop sends: Progress when bytes were written
ChunkEvents(progress) == IF progress THEN <<"Progress">> ELSE <<>>

\* the end of one pass of the attempt loop that did not break: sleep, next attempt
NextAttempt(i) ==
    dl' = [dl EXCEPT ![i] = IF dl[i].attempt < MaxAttempts
                            THEN DlState("attempt", dl[i].attempt + 1, 0, FALSE)
                            ELSE DlState("finish", dl[i].attempt, 0, FALSE)]

\* a stream that polled every download_single at once
SlotFreeUnbuffered == TRUE

\* buffer_unordered(concurrency) takes the next future of the stream only while
\* fewer than concurrency are in progress
SlotFree == Cardinality(InFlight) < dlConc

\* buffer_unordered(concurrency) polls the next download_single of the stream
DlStart(i) ==
    /\ dl[i].pc = "queued"
    /\ \A j \in 1..(i - 1) : dl[j].pc # "queued"
    /\ SlotFree
    /\ dl' = [dl EXCEPT ![i].pc = "attempt"]
    /\ Send(i, <<"Started">>)
    /\ UNCHANGED <<dlReqs, dlConc, paths, inodes, dlPre, nonDlVars>>

\* the GET fails, the status is no success, or File::create fails
DlGetFails(i) ==
    /\ dl[i].pc = "attempt"
    /\ NextAttempt(i)
    /\ UNCHANGED <<dlReqs, dlConc, paths, inodes, dlPre, dlEvents, nonDlVars>>

\* File::create(tmp_path): an existing file is truncated, a missing one is created
DlCreate(i) ==
    /\ dl[i].pc = "attempt"
    /\ LET tmp == TmpPath(dlReqs[i])
       IN  IF Exists(tmp)
           THEN /\ inodes' = [inodes EXCEPT ![paths[tmp]] = Bytes(i, "empty")]
                /\ dl' = [dl EXCEPT ![i].pc = "created", ![i].handle = paths[tmp]]
                /\ UNCHANGED paths
           ELSE /\ inodes' = Append(inodes, Bytes(i, "empty"))
                /\ paths' = [p \in DOMAIN paths \cup {tmp} |->
                               IF p = tmp THEN Len(inodes) + 1 ELSE paths[p]]
                /\ dl' = [dl EXCEPT ![i].pc = "created", ![i].handle = Len(inodes) + 1]
    /\ UNCHANGED <<dlReqs, dlConc, dlPre, dlEvents, nonDlVars>>

\* the chunk loop: the body arrives in full (the file's bytes or a corrupt
\* mirror's) and is flushed, or the stream or a write fails part way; progress says
\* whether any chunk was written, "partial" also being a stream that broke at once
DlStream(i, body, progress) ==
    /\ dl[i].pc = "created"
    /\ body # "partial" => progress
    /\ Send(i, ChunkEvents(progress))
    /\ inodes' = [inodes EXCEPT ![dl[i].handle] = Bytes(i, body)]
    /\ IF body = "partial"
       THEN NextAttempt(i)
       ELSE dl' = [dl EXCEPT ![i].pc = "written"]
    /\ UNCHANGED <<dlReqs, dlConc, paths, dlPre, nonDlVars>>

\* verification: with an expected checksum, the file at tmp_path is hashed and compared
Verified(i) ==
    \/ dlReqs[i].expected_checksum = NoneV
    \/ /\ Exists(TmpPath(dlReqs[i]))
       /\ eq_ignore_ascii_case(compute_file_checksum(ContentAt(TmpPath(dlReqs[i]))),
                               Get(dlReqs[i].expected_checksum))

DlVerify(i) ==
    /\ dl[i].pc = "written"
    /\ IF Verified(i)
       THEN dl' = [dl EXCEPT ![i].pc = "verified"]
       ELSE NextAttempt(i)
    /\ UNCHANGED <<dlReqs, dlConc, paths, inodes, dlPre, dlEvents, nonDlVars>>

\* tokio::fs::rename(tmp_path, target_path): it fails when the temp file is gone, and
\* may fail for the target's sake (ok = FALSE: a directory, a file held open)
DlRename(i, ok) ==
    /\ dl[i].pc = "verified"
    /\ LET tmp == TmpPath(dlReqs[i])
           target == dlReqs[i].target_path
       IN  IF Exists(tmp) /\ ok
           THEN /\ paths' = [p \in (DOMAIN paths \ {tmp}) \cup {target} |->
                               IF p = target THEN paths[tmp] ELSE paths[p]]
                /\ dl' = [dl EXCEPT ![i].pc = "finish", ![i].success = TRUE]
           ELSE /\ NextAttempt(i)
                /\ UNCHANGED paths
    /\ UNCHANGED <<dlReqs, dlConc, inodes, dlPre, dlEvents, nonDlVars>>

\* after the loop: remove_file(tmp_path) unless success; the DownloadResult is returned
DlFinish(i) ==
    /\ dl[i].pc = "finish"
    /\ dl' = [dl EXCEPT ![i].pc = "done"]
    /\ Send(i, <<"Completed">>)
    /\ paths' = IF dl[i].success THEN paths
                ELSE [p \in DOMAIN paths \ {TmpPath(dlReqs[i])} |-> paths[p]]
    /\ UNCHANGED <<dlReqs, dlConc, inodes, dlPre, nonDlVars>>

DlNext ==
    \/ \E i \in 1..Len(dl) : DlStart(i)
    \/ \E i \in 1..Len(dl) : DlGetFails(i)
    \/ \E i \in 1..Len(dl) : DlCreate(i)
    \/ \E i \in 1..Len(dl), body \in {"good", "bad", "partial"}, progress \in BOOLEAN :
         DlStream(i, body, progress)
    \/ \E i \in 1..Len(dl) : DlVerify(i)
    \/ \E i \in 1..Len(dl), ok \in BOOLEAN : DlRename(i, ok)
    \/ \E i \in 1..Len(dl) : DlFinish(i)

SpecDl == DlInit /\ [][DlNext]_vars

\* the target of request i holds what a verified temp file of request i holds
HoldsVerified(i) ==
    /\ Exists(dlReqs[i].target_path)
    /\ ContentAt(dlReqs[i].target_path).src = i
    /\ IF dlReqs[i].expected_checksum = NoneV
       THEN ContentAt(dlReqs[i].target_path).state \in {"good", "bad"}
       ELSE ContentAt(dlReqs[i].target_path).state = "good"

\* the target of request i is as it was when the batch began
TargetAsBefore(i) ==
    IF dlReqs[i].target_path \in DOMAIN dlPre
    THEN /\ Exists(dlReqs[i].target_path)
         /\ ContentAt(dlReqs[i].target_path) = dlPre[dlReqs[i].target_path]
    ELSE ~ Exists(dlReqs[i].target_path)

\* C4: a download's target is only ever replaced by its fully written, verified temp
\* file: a finished download with success = true has its target holding that file, and
\* one with success = false has its target as before the batch and no temp file left.
C4_TargetOnlyVerifiedTemp ==
    \A i \in 1..Len(dl) :
        dl[i].pc = "done" =>
            IF dl[i].success
            THEN HoldsVerified(i)
            ELSE TargetAsBefore(i) /\ ~ Exists(TmpPath(dlReqs[i]))

\* a download that failed all its attempts has finished, and its target is gone
C4_Witness ==
    \E i \in 1..Len(dl) :
        /\ dl[i].pc = "done"
        /\ ~ dl[i].success
        /\ dlReqs[i].target_path \in DOMAIN dlPre
        /\ ~ Exists(dlReqs[i].target_path)

\* C5: downloads of one batch with distinct targets work on distinct temp paths, so
\* none of them truncates or renames the temp file another one is writing.
C5_DistinctTempPaths ==
    \A i, j \in 1..Len(dl) :
        (/\ i # j
         /\ dlReqs[i].target_path # dlReqs[j].target_path
         /\ dl[i].pc \notin {"queued", "done"}
         /\ dl[j].pc \notin {"queued", "done"})
        => TmpPath(dlReqs[i]) # TmpPath(dlReqs[j])

\* two downloads with distinct targets hold the same temp file open
C5_Witness ==
    \E i, j \in 1..Len(dl) :
        /\ i # j
        /\ dl[i].pc \in {"created", "written", "verified"}
        /\ dl[j].pc \in {"created", "written", "verified"}
        /\ dl[i].handle = dl[j].handle

\* C18: for every request id of a batch, whatever the outcome and the number of
\* retries, progress_tx carries exactly one Started, then zero or more Progress, then
\* exactly one Completed: nothing before the download is polled, Started first,
\* Completed last and only once the download has returned.
C18_StartedProgressCompleted ==
    \A i \in 1..Len(dl) :
        LET log == dlEvents[i]
        IN  /\ (dl[i].pc = "queued") <=> (log = <<>>)
            /\ log # <<>> =>
                  /\ log[1] = "Started"
                  /\ \A k \in 2..Len(log) :
                        \/ log[k] = "Progress"
                        \/ k = Len(log) /\ log[k] = "Completed"
            /\ (dl[i].pc = "done") <=> (log # <<>> /\ log[Len(log)] = "Completed")

\* a download that used all its attempts, wrote bytes in more than one of them, and
\* has returned
C18_Witness ==
    \E i \in 1..Len(dl) :
        /\ dl[i].pc = "done"
        /\ dl[i].attempt = MaxAttempts
        /\ Len(dlEvents[i]) >= 4

\* the downloads that have sent Started and not yet Completed
StartedNotCompleted ==
    { i \in 1..Len(dl) : dlEvents[i] # <<>> /\ dlEvents[i][Len(dlEvents[i])] # "Completed" }

\* C19: at every moment of download_batch, the number of downloads that have sent
\* Started and not yet Completed is at most max_threads (Downloader::concurrency).
C19_InFlightAtMostMaxThreads == Cardinality(StartedNotCompleted) <= dlConc

\* as many downloads as max_threads allows are between Started and Completed while
\* another request of the batch waits to be polled
C19_Witness ==
    /\ Cardinality(StartedNotCompleted) = dlConc
    /\ \E i \in 1..Len(dl) : dl[i].pc = "queued"

----------------------------------------------------------------------------
(* Plan executor and engine facade: fleet-pipeline sync/execute.rs, sync/engine.rs, *)
(* sync/storage.rs                                                                  *)

MaxPlanActions == 2   \* actions (deletes + renames + downloads) per plan

Result(kind, tag) == [kind |-> kind, tag |-> tag]

\* validate_relative_path of the executor: Ok, or the Security error
ExecValidateRelativePath(path) ==
    /\ ~ ContainsSub(path, <<".", ".">>)
    /\ ~ StartsWith(path, <<"/">>)
    /\ ~ StartsWith(path, <<"\\">>)
    /\ ~ (Len(path) > 1 /\ path[2] = ":")

\* root.join(rel): an absolute rel replaces the root, anything else stays under it
StartsWithRoot(rel) == ~ StartsWith(rel, <<"/">>)

Join(a, b) == a \o <<"/">> \o b

IsDir(path) == \E p \in DOMAIN paths : StartsWith(p, path \o <<"/">>)

DeleteAction(path) == [path |-> path]
RenameAction(old, new) == [old_path |-> old, new_path |-> new]
DownloadAction(mod_name, rel) == [mod_name |-> mod_name, rel_path |-> rel]

DeleteActions == { DeleteAction(TgtAP), DeleteAction(ModA), DeleteAction(RelTraversal) }
RenameActions == { RenameAction(TgtB, TgtAT), RenameAction(TgtB, RelTraversal) }
DownloadActions == { DownloadAction(ModA, <<"a", ".", "p">>), DownloadAction(ModA, RelBackslash),
                     DownloadAction(ModA, RelTraversal) }

NoRepeat(q) == \A i, j \in 1..Len(q) : i # j => q[i] # q[j]

\* plans as compute_plan hands them over, no action twice in a list
Plans ==
    { [deletes |-> x[1], renames |-> x[2], downloads |-> x[3]] :
        x \in { y \in SeqsUpTo(DeleteActions, MaxPlanActions)
                      \X SeqsUpTo(RenameActions, MaxPlanActions)
                      \X SeqsUpTo(DownloadActions, MaxPlanActions) :
                  /\ Len(y[1]) + Len(y[2]) + Len(y[3]) <= MaxPlanActions
                  /\ NoRepeat(y[1]) /\ NoRepeat(y[2]) /\ NoRepeat(y[3]) } }

\* metadata of a file: a modification time that is not 0, and its length
MetaMtime(content) == 1
MetaLen(content) == IF content.state \in {"empty", "partial"} THEN 0 ELSE 1
ManifestLength == 1

\* compute_summary_from_manifest: per file the normalized path, the manifest's
\* checksum, and mtime and size from the file on disk (0 and the manifest's length
\* when it is missing)
compute_summary_from_manifest(manifest) ==
    [i \in 1..Len(manifest) |->
        ModSummary(manifest[i].name,
            [j \in 1..Len(manifest[i].files) |->
                LET normalized == FleetPathNormalize(manifest[i].files[j].path)
                    fs_path == Join(manifest[i].name, normalized)
                IN  [rel_path |-> normalized,
                     mtime |-> IF Exists(fs_path) THEN MetaMtime(ContentAt(fs_path)) ELSE 0,
                     size |-> IF Exists(fs_path) THEN MetaLen(ContentAt(fs_path))
                              ELSE ManifestLength,
                     checksum |-> manifest[i].files[j].checksum]])]

EngCalls ==
    { [op |-> "plan_and_execute", plan |-> pl, remote_manifest |-> Some(ManifestTwo)] : pl \in Plans }
    \cup { [op |-> "execute_with_plan", plan |-> pl, remote_manifest |-> NoneV] : pl \in Plans }
    \cup { [op |-> "persist_remote_snapshot", plan |-> NoPlan,
            remote_manifest |-> Some(ManifestTwo)] }

\* an engine call on a root holding two files, with the baseline of an earlier sync
\* or with none yet
EngInit ==
    /\ StoreIdle
    /\ OrchIdle
    /\ DiffIdle
    /\ PlanIdle
    /\ SyncIdle /\ OpenIdle /\ KvIdle /\ StaleIdle /\ TrkIdle
    /\ dlReqs = <<>> /\ dl = <<>> /\ dlConc = MaxConcurrency /\ dlPre = NoFiles
    /\ dlEvents = <<>>
    /\ paths = [p \in {TgtAP, TgtB} |-> IF p = TgtAP THEN 1 ELSE 2]
    /\ inodes = <<OldBytes, OldBytes>>
    /\ engCall \in EngCalls
    /\ engPc = "idle"
    /\ engK = 1
    /\ stats = NoStats
    /\ execRet = NoResult
    /\ engRet = NoResult
    /\ \E synced \in BOOLEAN :
         /\ manifestFile = IF synced THEN Some(ManifestOne) ELSE NoneV
         /\ summaryFile = IF synced THEN Some(compute_summary_from_manifest(ManifestOne))
                          ELSE NoneV
    /\ engPre = [files |-> Snapshot, manifest |-> manifestFile, summary |-> summaryFile]
    /\ renLog = NoRename

\* where execute begins or goes on once the loop at `pc` is through
LoopAfterRenamesFirst(plan, pc) ==
    IF pc = "start" /\ Len(plan.renames) > 0 THEN "renames"
    ELSE IF pc \in {"start", "renames"} /\ Len(plan.deletes) > 0 THEN "deletes"
    ELSE "downloads"
LoopAfter(plan, pc) ==
    IF pc = "start" /\ Len(plan.deletes) > 0 THEN "deletes"
    ELSE IF pc \in {"start", "deletes"} /\ Len(plan.renames) > 0 THEN "renames"
    ELSE "downloads"

\* execute_with_plan_internal on the executor's result: `?` returns its error at once
EngineOnExecuteSavesAnyway(res) == [pc |-> "fetch", ret |-> NoResult]
EngineOnExecute(res) ==
    IF res.kind = "Ok" THEN [pc |-> "fetch", ret |-> NoResult]
    ELSE [pc |-> "done", ret |-> res]

\* DefaultPlanExecutor::execute returns res to execute_with_plan_internal
ExecReturn(res) ==
    /\ execRet' = res
    /\ engPc' = EngineOnExecute(res).pc
    /\ engRet' = EngineOnExecute(res).ret
    /\ engK' = 1

\* a guard that lets every plan through to the executor
PlanIsEmptyNever(plan) == FALSE

\* plan.deletes.is_empty() && plan.renames.is_empty() && plan.downloads.is_empty()
PlanIsEmpty(plan) ==
    Len(plan.deletes) = 0 /\ Len(plan.renames) = 0 /\ Len(plan.downloads) = 0

\* the call enters: the no-op guard of execute_with_plan_internal, or straight to
\* the two saves for persist_remote_snapshot
EngStart ==
    /\ engPc = "idle"
    /\ engCall.op # "None"
    /\ UNCHANGED <<engCall, engK, stats, execRet, manifestFile, summaryFile, engPre, renLog,
                   dlVars, nonEngVars>>
    /\ IF engCall.op = "persist_remote_snapshot"
       THEN engPc' = "save" /\ UNCHANGED engRet
       ELSE IF PlanIsEmpty(engCall.plan)
       THEN engPc' = "done" /\ engRet' = Result("Ok", "not executed")
       ELSE engPc' = LoopAfter(engCall.plan, "start") /\ UNCHANGED engRet

\* one pass of the loop over plan.deletes
ExecDelete ==
    /\ engPc = "deletes"
    /\ UNCHANGED <<engCall, manifestFile, summaryFile, engPre, renLog, dlReqs, dlConc, inodes, dl,
                   dlPre, dlEvents, nonEngVars>>
    /\ LET path == engCall.plan.deletes[engK].path
           more == engK < Len(engCall.plan.deletes)
       IN  IF ~ ExecValidateRelativePath(path) \/ ~ StartsWithRoot(path)
           THEN /\ ExecReturn(Result("Execution", "Security"))
                /\ UNCHANGED <<paths, stats>>
           ELSE /\ engPc' = IF more THEN engPc ELSE LoopAfter(engCall.plan, "deletes")
                /\ engK' = IF more THEN engK + 1 ELSE 1
                /\ UNCHANGED <<execRet, engRet>>
                /\ IF IsDir(path)
                   THEN /\ paths' = [p \in { q \in DOMAIN paths :
                                               ~ StartsWith(q, path \o <<"/">>) } |-> paths[p]]
                        /\ stats' = [stats EXCEPT !.mods_deleted = @ + 1]
                   ELSE IF Exists(path)
                   THEN /\ paths' = [p \in DOMAIN paths \ {path} |-> paths[p]]
                        /\ stats' = [stats EXCEPT !.files_deleted = @ + 1]
                   ELSE UNCHANGED <<paths, stats>>

\* robust_rename (io_utils.rs): max_attempts, the first backoff and its ceiling, in ms
max_attempts == 8
BackoffStart == 50
BackoffCeiling == 2000

Min(a, b) == IF a <= b THEN a ELSE b

\* a backoff that doubled with no ceiling
NextBackoffUncapped(backoff) == backoff * 2

\* backoff = min(backoff * 2, 2000 ms)
NextBackoff(backoff) == Min(backoff * 2, BackoffCeiling)

\* what the calls of fs::rename inside one robust_rename may return, call by call
RenameResults == [1..max_attempts -> BOOLEAN]

\* the loop of robust_rename after `attempt` failed calls: Ok at the first call that
\* succeeds, the error once attempt reaches max_attempts, a sleep of backoff otherwise
RECURSIVE RobustRenameLoop(_, _, _, _)
RobustRenameLoop(results, attempt, backoff, waits) ==
    IF results[attempt + 1]
    THEN [ok |-> TRUE, calls |-> attempt + 1, waits |-> waits]
    ELSE IF attempt + 1 >= max_attempts
    THEN [ok |-> FALSE, calls |-> attempt + 1, waits |-> waits]
    ELSE RobustRenameLoop(results, attempt + 1, NextBackoff(backoff), Append(waits, backoff))

robust_rename(results) == RobustRenameLoop(results, 0, BackoffStart, <<>>)

\* one pass of the loop over plan.renames; robust_rename's own result is dropped
ExecRename ==
    /\ engPc = "renames"
    /\ UNCHANGED <<engCall, manifestFile, summaryFile, engPre, dlReqs, dlConc, inodes, dl,
                   dlPre, dlEvents, nonEngVars>>
    /\ LET old == engCall.plan.renames[engK].old_path
           new == engCall.plan.renames[engK].new_path
           more == engK < Len(engCall.plan.renames)
       IN  IF \/ ~ ExecValidateRelativePath(old) \/ ~ ExecValidateRelativePath(new)
              \/ ~ StartsWithRoot(old) \/ ~ StartsWithRoot(new)
           THEN /\ ExecReturn(Result("Execution", "Security"))
                /\ UNCHANGED <<paths, stats, renLog>>
           ELSE /\ engPc' = IF more THEN engPc ELSE LoopAfter(engCall.plan, "renames")
                /\ engK' = IF more THEN engK + 1 ELSE 1
                /\ UNCHANGED <<execRet, engRet>>
                /\ IF Exists(old)
                   THEN /\ stats' = [stats EXCEPT !.renames = @ + 1]
                        /\ \E results \in RenameResults :
                             /\ renLog' = robust_rename(results)
                             /\ paths' = IF renLog'.ok
                                         THEN [p \in (DOMAIN paths \ {old}) \cup {new} |->
                                                 IF p = new THEN paths[old] ELSE paths[p]]
                                         ELSE paths
                   ELSE UNCHANGED <<paths, stats, renLog>>

DownloadTarget(action) == Join(action.mod_name, FleetPathNormalize(action.rel_path))

DownloadActionOk(action) ==
    /\ ExecValidateRelativePath(action.mod_name)
    /\ ExecValidateRelativePath(action.rel_path)
    /\ ExecValidateRelativePath(FleetPathNormalize(action.rel_path))
    /\ StartsWithRoot(DownloadTarget(action))

\* the loop over plan.downloads, which touches no file, and the call of download_batch
ExecDownloads ==
    /\ engPc = "downloads"
    /\ UNCHANGED <<engCall, manifestFile, summaryFile, engPre, renLog, dlConc, paths, inodes,
                   nonEngVars>>
    /\ LET downloads == engCall.plan.downloads
       IN  IF \E i \in 1..Len(downloads) : ~ DownloadActionOk(downloads[i])
           THEN /\ ExecReturn(Result("Execution", "Security"))
                /\ UNCHANGED <<dlReqs, dl, dlPre, dlEvents, stats>>
           ELSE /\ dlReqs' = [i \in 1..Len(downloads) |->
                                DownloadRequest(i, DownloadTarget(downloads[i]),
                                                Some(ManifestChecksum(i)))]
                /\ dl' = [i \in 1..Len(downloads) |-> DlState("queued", 1, 0, FALSE)]
                /\ dlPre' = Snapshot
                /\ dlEvents' = [i \in 1..Len(dlReqs') |-> <<>>]
                /\ stats' = [stats EXCEPT !.files_planned_download = Len(downloads)]
                /\ engPc' = "downloading"
                /\ UNCHANGED <<engK, execRet, engRet>>

\* download_batch has returned: every result that is no success, or whose file
\* cannot be stat'ed, counts as failed
ExecCollect ==
    /\ engPc = "downloading"
    /\ \A i \in 1..Len(dl) : dl[i].pc = "done"
    /\ UNCHANGED <<engCall, stats, manifestFile, summaryFile, engPre, renLog, dlVars, nonEngVars>>
    /\ LET failed == { i \in 1..Len(dl) :
                         ~ dl[i].success \/ ~ Exists(dlReqs[i].target_path) }
       IN  IF failed # {}
           THEN ExecReturn(Result("Execution", "Failed downloads"))
           ELSE ExecReturn(Result("Ok", "None"))

\* manifest_to_save: the manifest passed in, or fetch_remote, which may fail
EngFetch ==
    /\ engPc = "fetch"
    /\ UNCHANGED <<engK, stats, execRet, manifestFile, summaryFile, engPre, renLog, dlVars, nonEngVars>>
    /\ IF engCall.remote_manifest # NoneV
       THEN engPc' = "save" /\ UNCHANGED <<engCall, engRet>>
       ELSE \/ /\ engCall' = [engCall EXCEPT !.remote_manifest = Some(ManifestTwo)]
               /\ engPc' = "save"
               /\ UNCHANGED engRet
            \/ /\ engRet' = Result("Remote", "fetch_remote")
               /\ engPc' = "done"
               /\ UNCHANGED engCall

\* FileManifestStore::save: write the tmp file, rename it over the manifest file
EngSave ==
    /\ engPc = "save"
    /\ UNCHANGED <<engCall, engK, stats, execRet, summaryFile, engPre, renLog, dlVars, nonEngVars>>
    /\ \/ /\ manifestFile' = engCall.remote_manifest
          /\ engPc' = "save_summary"
          /\ UNCHANGED engRet
       \/ /\ engRet' = Result("Local", "manifest save failed")
          /\ engPc' = "done"
          /\ UNCHANGED manifestFile

\* compute_summary_from_manifest, then FileManifestStore::save_summary
EngSaveSummary ==
    /\ engPc = "save_summary"
    /\ UNCHANGED <<engCall, engK, stats, execRet, manifestFile, engPre, renLog, dlVars, nonEngVars>>
    /\ engPc' = "done"
    /\ \/ /\ summaryFile' = Some(compute_summary_from_manifest(Get(engCall.remote_manifest)))
          /\ engRet' = Result("Ok", "executed")
       \/ /\ engRet' = Result("Local", "summary save failed")
          /\ UNCHANGED summaryFile

EngNext ==
    \/ EngStart
    \/ ExecDelete
    \/ ExecRename
    \/ ExecDownloads
    \/ \E i \in 1..Len(dl) : DlStart(i)
    \/ \E i \in 1..Len(dl) : DlGetFails(i)
    \/ \E i \in 1..Len(dl) : DlCreate(i)
    \/ \E i \in 1..Len(dl), body \in {"good", "bad", "partial"}, progress \in BOOLEAN :
         DlStream(i, body, progress)
    \/ \E i \in 1..Len(dl) : DlVerify(i)
    \/ \E i \in 1..Len(dl), ok \in BOOLEAN : DlRename(i, ok)
    \/ \E i \in 1..Len(dl) : DlFinish(i)
    \/ ExecCollect
    \/ EngFetch
    \/ EngSave
    \/ EngSaveSummary

SpecEngine == EngInit /\ [][EngNext]_vars

\* C2: when the executor returns an error (a download failed for good, or a path
\* was rejected), the engine call returns that Execution error and the persisted
\* baseline manifest and summary are those of before the call; what the executor
\* had already done to the files stays.
C2_ExecutorErrorKeepsBaseline ==
    execRet.kind = "Execution" =>
        /\ engPc = "done"
        /\ engRet = execRet
        /\ manifestFile = engPre.manifest
        /\ summaryFile = engPre.summary

\* downloads failed after a delete or rename had changed the files, on a root
\* with a baseline
C2_Witness ==
    /\ execRet = Result("Execution", "Failed downloads")
    /\ engRet.kind = "Execution"
    /\ stats.files_deleted + stats.mods_deleted + stats.renames > 0
    /\ Snapshot # engPre.files
    /\ manifestFile = Some(ManifestOne)

\* the summary is one computed from the manifest: same mods, same normalized paths,
\* same checksums
SummaryMatches(manifest, summary) ==
    /\ Len(summary) = Len(manifest)
    /\ \A i \in 1..Len(manifest) :
         /\ summary[i].mod_name = manifest[i].name
         /\ Len(summary[i].files) = Len(manifest[i].files)
         /\ \A j \in 1..Len(manifest[i].files) :
              /\ summary[i].files[j].rel_path = FleetPathNormalize(manifest[i].files[j].path)
              /\ summary[i].files[j].checksum = manifest[i].files[j].checksum

\* C3: the new baseline manifest and the summary recomputed from it are committed
\* together: once a call has returned, Ok or with an error, also one that failed
\* between the two writes, the persisted manifest and summary belong together.
C3_ManifestAndSummaryTogether ==
    engPc = "done" =>
        \/ manifestFile = NoneV /\ summaryFile = NoneV
        \/ /\ manifestFile # NoneV
           /\ summaryFile # NoneV
           /\ SummaryMatches(Get(manifestFile), Get(summaryFile))

\* save_summary failed after save had replaced the manifest: new manifest, old summary
C3_Witness ==
    /\ engRet = Result("Local", "summary save failed")
    /\ manifestFile = Some(ManifestTwo)
    /\ engPre.manifest = Some(ManifestOne)
    /\ summaryFile = engPre.summary

\* C6: when any delete, rename or download action of the plan carries a rejected
\* path, execute returns the Execution error tagged Security and has deleted,
\* renamed, created and downloaded nothing, wherever the action stands in the plan.
C6_SecurityErrorTouchesNothing ==
    execRet = Result("Execution", "Security") => Snapshot = engPre.files

\* a Security error returned after an earlier action of the plan had deleted a file
C6_Witness ==
    /\ execRet = Result("Execution", "Security")
    /\ stats.files_deleted > 0
    /\ \E p \in DOMAIN engPre.files : ~ Exists(p)

\* a pass of a loop of execute that deleted, or renamed, an existing path
DeleteApplied ==
    stats'.files_deleted + stats'.mods_deleted > stats.files_deleted + stats.mods_deleted
RenameApplied == stats'.renames > stats.renames
DownloadStarted == \E i \in 1..Len(dl) : dl[i].pc # "queued"

\* C17: in every execution of a plan all deletes are applied before any rename is
\* applied, and all renames before any download starts: no delete is applied once a
\* rename was applied or a download started, no rename once a download started.
C17_DeletesRenamesDownloads ==
    [][/\ DeleteApplied => (stats.renames = 0 /\ ~ DownloadStarted)
       /\ RenameApplied => ~ DownloadStarted]_vars

\* a plan whose delete and rename were both applied, in this order
C17_Witness ==
    /\ stats.files_deleted + stats.mods_deleted > 0
    /\ stats.renames > 0
    /\ engPc \in {"downloads", "downloading", "fetch", "done"}

\* the engine call under a runtime that keeps polling: every HTTP attempt, file
\* operation and sleep comes to an end, and max_threads is at least 1
SpecEngineLive == EngInit /\ [][EngNext]_vars /\ WF_vars(EngNext)

\* the waits of one robust_rename: 50 ms, doubling, never above 2 s
WaitsDoubleToCeiling(waits) ==
    \A k \in 1..Len(waits) : waits[k] = Min(BackoffStart * 2 ^ (k - 1), BackoffCeiling)

\* no download is in a fourth attempt, and a download that returned without success
\* has used all three; a rename made at most 8 calls, with a wait between two calls
RetriesBounded ==
    /\ \A i \in 1..Len(dl) :
          /\ dl[i].attempt <= MaxAttempts
          /\ dl[i].pc = "done" /\ ~ dl[i].success => dl[i].attempt = MaxAttempts
    /\ renLog.calls <= max_attempts
    /\ Len(renLog.waits) = (IF renLog.calls = 0 THEN 0 ELSE renLog.calls - 1)
    /\ WaitsDoubleToCeiling(renLog.waits)

\* execute is running one of its loops, or waits for download_batch
InExecute == engPc \in {"deletes", "renames", "downloads", "downloading"}

\* C20: retries are bounded: each download makes at most 3 attempts and makes no
\* further attempt after the one that was verified and renamed onto its target, and
\* each rename makes at most 8 attempts with waits of 50 ms doubling up to a 2 s
\* ceiling; hence, every HTTP attempt ending and max_threads being at least 1, execute
\* returns for every finite plan.
C20_RetriesBoundedExecuteReturns ==
    /\ []RetriesBounded
    /\ [][\A i \in 1..Len(dl) : dl[i].success => dl'[i].attempt = dl[i].attempt]_vars
    /\ [](InExecute => <>(execRet # NoResult))

\* C20 as stated: each download stops at the first verified attempt, whatever becomes
\* of the rename that follows the verification.
C20_StopsAtFirstVerified ==
    /\ []RetriesBounded
    /\ [][\A i \in 1..Len(dl) : dl[i].pc = "verified" => dl'[i].attempt = dl[i].attempt]_vars
    /\ [](InExecute => <>(execRet # NoResult))

\* execute has returned after a rename that used all 8 calls and a download that
\* used all 3 attempts
C20_Witness ==
    /\ execRet # NoResult
    /\ renLog.calls = max_attempts
    /\ \E i \in 1..Len(dl) : dl[i].pc = "done" /\ dl[i].attempt = MaxAttempts

\* execute_with_plan or plan_and_execute with a plan that has no deletes, no renames
\* and no downloads
EmptyPlanCall ==
    /\ engCall.op \in {"execute_with_plan", "plan_and_execute"}
    /\ engCall.plan = NoPlan

RenameGaveUp == renLog.calls = max_attempts /\ ~ renLog.ok

\* the rename the executor is at has no source on disk
RenameSourceMissing ==
    /\ engPc = "renames"
    /\ ExecValidateRelativePath(engCall.plan.renames[engK].old_path)
    /\ ExecValidateRelativePath(engCall.plan.renames[engK].new_path)
    /\ StartsWithRoot(engCall.plan.renames[engK].old_path)
    /\ StartsWithRoot(engCall.plan.renames[engK].new_path)
    /\ ~ Exists(engCall.plan.renames[engK].old_path)

\* C21: if a rename of the plan still fails after its 8 attempts, execute returns an
\* Execution error and the rename is not counted in stats.renames; a rename whose
\* source does not exist is skipped without error, leaving files and stats alone.
C21_RenameFailureIsExecutionError ==
    /\ [](RenameGaveUp => execRet.kind = "Execution" /\ stats.renames = 0)
    /\ [][RenameSourceMissing =>
             paths' = paths /\ stats' = stats /\ execRet'.kind # "Execution"]_vars

\* execute has returned Ok, and counted a rename, after a rename that failed 8 times
C21_Witness ==
    /\ RenameGaveUp
    /\ stats.renames > 0
    /\ execRet.kind = "Ok"

----------------------------------------------------------------------------
(* Orchestrator and event consumer: fleet-app-core orchestrator.rs, app.rs,    *)
(* kernel.rs, app_core/reducer.rs, pipeline.rs                                  *)

MaxRuns == 2      \* runs started per behaviour
MaxCancels == 1   \* calls of cancel_pipeline per behaviour
MaxTicks == 1     \* ticker firings that find a snapshot, per sync run
MaxBacklog == 1   \* events the consumer has left in the channel when a worker sends
ChannelCap == 100 \* mpsc::channel(100)

Event(run_id, ev) == [run_id |-> run_id, ev |-> ev, step |-> "-", status |-> "-"]
StepChanged(run_id, step, status) ==
    [run_id |-> run_id, ev |-> "StepChanged", step |-> step, status |-> status]

TerminalEvents == {"Completed", "Failed", "Cancelled"}
SelectPcs == {"scan", "fetch", "execute"}

\* a worker as start_check_worker / start_sync spawn it, with its token clone
NewRun(kind) ==
    [kind |-> kind, pc |-> "spawned", latest |-> FALSE, ticks |-> 0,
     cancelled |-> FALSE, sent |-> {}, late |-> {}, first |-> NoneV, post |-> {}]

\* PipelineOrchestrator::cancel: take the token held, if any, and cancel it
CancelPreviousSkipped(rs, holder) == rs
CancelPrevious(rs, holder) ==
    IF holder = NoneV THEN rs
    ELSE [rs EXCEPT ![Get(holder)].cancelled = TRUE]

\* tx.try_send: the event is dropped when the channel is full
try_send(q, e) == IF Len(q) < ChannelCap THEN Append(q, e) ELSE q

\* the filter of handle_pipeline_events and of tick
AcceptsAnyRun(current, e) == TRUE
Accepts(current, e) == current = Some(e.run_id)

StepField(step) == IF step = "PostScan" THEN "Execute" ELSE step

FailRunning(steps) ==
    [st \in DOMAIN steps |-> IF steps[st] = "Running" THEN "Failed" ELSE steps[st]]

\* apply_pipeline_event
apply_pipeline_event(state, e) ==
    CASE e.ev = "Started" ->
            [IdlePipeline EXCEPT !.run_id = state.run_id]
      [] e.ev = "StepChanged" ->
            [state EXCEPT !.steps[StepField(e.step)] = e.status]
      [] e.ev = "PlanReady" ->
            [state EXCEPT !.last_plan = TRUE, !.steps["Diff"] = "Succeeded"]
      [] e.ev = "Completed" ->
            [state EXCEPT !.steps["Execute"] = "Succeeded"]
      [] e.ev \in {"Failed", "Cancelled"} ->
            [state EXCEPT !.error = TRUE, !.steps = FailRunning(state.steps)]
      [] OTHER -> state

\* the status changes between two step tables
StepMoves(old, new) == {<<old[st], new[st]>> : st \in {x \in DOMAIN old : old[x] # new[x]}}

\* the try_recv loop: every event is received, and reduced when the filter accepts it
RECURSIVE Drain(_, _)
Drain(c, q) ==
    IF q = <<>> THEN c
    ELSE LET e == Head(q)
             take == Accepts(c.app.run_id, e)
         IN  Drain([app |-> IF take THEN apply_pipeline_event(c.app, e) ELSE c.app,
                    got |-> IF e.ev \in TerminalEvents /\ e.run_id \in 1..Len(c.got)
                            THEN [c.got EXCEPT ![e.run_id] = Append(@, e.ev)]
                            ELSE c.got,
                    applied |-> IF take
                                THEN c.applied \cup {<<e.run_id, c.app.run_id>>}
                                ELSE c.applied,
                    moves |-> IF take /\ e.ev # "Started"
                              THEN c.moves \cup
                                   StepMoves(c.app.steps, apply_pipeline_event(c.app, e).steps)
                              ELSE c.moves],
                   Tail(q))

\* the kinds of the events evs
Kinds(evs) == {evs[i].ev : i \in 1..Len(evs)}

\* the events of evs that follow a terminal event, of this run's earlier events or of evs
AfterTerminal(run, evs) ==
    {evs[i].ev : i \in {k \in 1..Len(evs) :
                           \/ run.sent \cap TerminalEvents # {}
                           \/ \E j \in 1..(k - 1) : evs[j].ev \in TerminalEvents}}

\* run r has sent evs: sent holds the kinds of all its events, late those of the
\* events it sent after its token was cancelled, first the kind of its first event,
\* post those of the events it sent after a terminal event
Sent(run, evs) ==
    [run EXCEPT !.sent = @ \cup Kinds(evs),
                !.late = IF run.cancelled THEN @ \cup Kinds(evs) ELSE @,
                !.first = IF @ = NoneV /\ evs # <<>> THEN Some(evs[1].ev) ELSE @,
                !.post = @ \cup AfterTerminal(run, evs)]

Emitted(r, ev) == ev \in runs[r].sent

OrchInit == StoreIdle /\ DlIdle /\ EngIdle /\ OrchIdle /\ DiffIdle /\ PlanIdle /\ SyncIdle /\ OpenIdle /\ KvIdle /\ StaleIdle /\ TrkIdle

\* start_check_worker / start_sync: cancel the previous token, keep a new one, spawn
OrchestratorStart(kind) ==
    /\ Len(runs) < MaxRuns
    /\ runs' = Append(CancelPrevious(runs, orchCancel), NewRun(kind))
    /\ orchCancel' = Some(Len(runs) + 1)
    /\ got' = Append(got, <<>>)
    /\ UNCHANGED <<chan, cancels, applied, moves, nonOrchVars>>

\* FleetApplication::start_check: a new run id, the last plan forgotten
AppStartCheck ==
    /\ OrchestratorStart("remote")
    /\ app' = [app EXCEPT !.run_id = Some(Len(runs) + 1), !.last_plan = FALSE]

\* FleetApplication::start_local_check: a new run id, the last plan kept
AppStartLocalCheck ==
    /\ OrchestratorStart("local")
    /\ app' = [app EXCEPT !.run_id = Some(Len(runs) + 1)]

\* FleetApplication::execute_sync, which does nothing without a plan
AppExecuteSync ==
    /\ app.last_plan
    /\ OrchestratorStart("sync")
    /\ app' = [app EXCEPT !.run_id = Some(Len(runs) + 1)]

\* FleetApplication::cancel_pipeline: orchestrator.cancel(), then its own Cancelled
\* for the current run id (a fresh id, here 0, when there is none)
AppCancelPipeline ==
    /\ cancels < MaxCancels
    /\ cancels' = cancels + 1
    /\ runs' = CancelPrevious(runs, orchCancel)
    /\ orchCancel' = NoneV
    /\ chan' = try_send(chan, Event(IF app.run_id = NoneV THEN 0 ELSE Get(app.run_id),
                                    "Cancelled"))
    /\ UNCHANGED <<app, got, applied, moves, nonOrchVars>>

\* FleetApplication::handle_pipeline_events / kernel tick
HandlePipelineEvents ==
    /\ chan # <<>>
    /\ LET c == Drain([app |-> app, got |-> got, applied |-> applied, moves |-> moves],
                      chan)
       IN  app' = c.app /\ got' = c.got /\ applied' = c.applied /\ moves' = c.moves
    /\ chan' = <<>>
    /\ UNCHANGED <<runs, orchCancel, cancels, nonOrchVars>>

\* the worker of run r sends evs with tx.send(..).await, in order, and moves to pc
WorkerSends(r, evs, pc) ==
    /\ Len(chan) + Len(evs) <= ChannelCap
    /\ Len(chan) <= MaxBacklog
    /\ chan' = chan \o evs
    /\ runs' = [runs EXCEPT ![r] = [Sent(@, evs) EXCEPT !.pc = pc]]
    /\ UNCHANGED <<orchCancel, app, cancels, got, applied, moves, nonOrchVars>>

\* the worker thread starts: the runtime fails, or Started and the first Running step
WStart(r) ==
    /\ runs[r].pc = "spawned"
    /\ \/ WorkerSends(r, <<Event(r, "Failed")>>, "end")
       \/ IF runs[r].kind = "sync"
          THEN WorkerSends(r, <<Event(r, "Started"), StepChanged(r, "Execute", "Running")>>,
                           "execute")
          ELSE WorkerSends(r, <<Event(r, "Started"), StepChanged(r, "Scan", "Running")>>,
                           "scan")

\* the token.cancelled() branch of a select
WCancelled(r) ==
    /\ runs[r].pc \in SelectPcs
    /\ runs[r].cancelled
    /\ WorkerSends(r, <<Event(r, "Cancelled")>>, "end")

\* the scan branch of the first select, taken when the scan completes; on_progress
\* may have sent ScanStats
WScanDone(r, ok, progress) ==
    /\ runs[r].pc = "scan"
    /\ LET seen == IF progress THEN <<Event(r, "ScanStats")>> ELSE <<>>
       IN  IF ~ ok
           THEN WorkerSends(r, seen \o <<Event(r, "Failed")>>, "end")
           ELSE IF runs[r].kind = "local"
           THEN WorkerSends(r, seen \o <<StepChanged(r, "Scan", "Succeeded"),
                                         StepChanged(r, "Fetch", "Skipped"),
                                         StepChanged(r, "Diff", "Running")>>, "diff")
           ELSE WorkerSends(r, seen \o <<StepChanged(r, "Scan", "Succeeded"),
                                         StepChanged(r, "Fetch", "Running")>>, "fetch")

\* the fetch branch of the second select of a remote-update check
WFetchDone(r, ok) ==
    /\ runs[r].pc = "fetch"
    /\ IF ok
       THEN WorkerSends(r, <<StepChanged(r, "Fetch", "Succeeded"),
                             StepChanged(r, "Diff", "Running")>>, "diff")
       ELSE WorkerSends(r, <<Event(r, "Failed")>>, "end")

\* compute_local_integrity_plan / compute_plan, outside any select
WDiff(r, ok) ==
    /\ runs[r].pc = "diff"
    /\ WorkerSends(r, <<Event(r, IF ok THEN "PlanReady" ELSE "Failed")>>, "end")

\* the prog_rx.recv() branch of the sync loop: the tracker has a snapshot
WProgress(r) ==
    /\ runs[r].pc = "execute"
    /\ ~ runs[r].latest
    /\ runs' = [runs EXCEPT ![r].latest = TRUE]
    /\ UNCHANGED <<orchCancel, chan, app, cancels, got, applied, moves, nonOrchVars>>

\* the ticker branch of the sync loop: try_send of the latest snapshot
WTick(r) ==
    /\ runs[r].pc = "execute"
    /\ runs[r].latest
    /\ runs[r].ticks < MaxTicks
    /\ Len(chan) <= MaxBacklog
    /\ chan' = try_send(chan, Event(r, "TransferProgress"))
    /\ runs' = [runs EXCEPT ![r] = [(IF Len(chan) < ChannelCap
                                      THEN Sent(@, <<Event(r, "TransferProgress")>>)
                                      ELSE @) EXCEPT !.ticks = @ + 1]]
    /\ UNCHANGED <<orchCancel, app, cancels, got, applied, moves, nonOrchVars>>

\* the work branch of the sync loop: the last snapshot, then Completed or Failed
WExecuteDone(r, ok) ==
    /\ runs[r].pc = "execute"
    /\ WorkerSends(r, (IF runs[r].latest THEN <<Event(r, "TransferProgress")>> ELSE <<>>)
                      \o <<Event(r, IF ok THEN "Completed" ELSE "Failed")>>, "postscan")

\* the scan after the sync loop, outside any select; ScanStats if the scan reported any
WPostScan(r, progress) ==
    /\ runs[r].pc = "postscan"
    /\ WorkerSends(r, IF progress THEN <<Event(r, "ScanStats")>> ELSE <<>>, "end")

OrchNext ==
    \/ AppStartCheck
    \/ AppStartLocalCheck
    \/ AppExecuteSync
    \/ AppCancelPipeline
    \/ HandlePipelineEvents
    \/ \E r \in 1..Len(runs) : WStart(r)
    \/ \E r \in 1..Len(runs) : WCancelled(r)
    \/ \E r \in 1..Len(runs), ok \in BOOLEAN, progress \in BOOLEAN : WScanDone(r, ok, progress)
    \/ \E r \in 1..Len(runs), ok \in BOOLEAN : WFetchDone(r, ok)
    \/ \E r \in 1..Len(runs), ok \in BOOLEAN : WDiff(r, ok)
    \/ \E r \in 1..Len(runs) : WProgress(r)
    \/ \E r \in 1..Len(runs) : WTick(r)
    \/ \E r \in 1..Len(runs), ok \in BOOLEAN : WExecuteDone(r, ok)
    \/ \E r \in 1..Len(runs), progress \in BOOLEAN : WPostScan(r, progress)

SpecOrch == OrchInit /\ [][OrchNext]_vars

\* C7: every start operation (local-integrity check, remote-update check, sync)
\* cancels the token of the previously started run before the new run emits
\* Started, so at any moment at most one run has an un-cancelled token.
C7_StartCancelsPrevious ==
    /\ Cardinality({r \in 1..Len(runs) : ~ runs[r].cancelled}) <= 1
    /\ \A r \in 1..Len(runs) :
         Emitted(r, "Started") => \A q \in 1..(r - 1) : runs[q].cancelled

\* a second run has emitted Started while the first, cancelled, is still working
C7_Witness ==
    /\ Len(runs) = 2
    /\ Emitted(2, "Started")
    /\ ~ runs[2].cancelled
    /\ runs[1].cancelled
    /\ runs[1].pc \in SelectPcs

\* C8: for any interleaving of start, cancel and worker emissions, an event is
\* applied to the application state only if its run_id equals the current run_id.
C8_OnlyCurrentRunApplied ==
    \A p \in applied : Some(p[1]) = p[2]

\* the consumer has received a terminal event of run 1 and never applied an event
\* of run 1, while it applied events of run 2
C8_Witness ==
    /\ Len(runs) = 2
    /\ got[1] # <<>>
    /\ app.run_id = Some(2)
    /\ \E p \in applied : p[1] = 2
    /\ \A p \in applied : p[1] # 1

\* C9: a run whose token was cancelled before it emitted its last event emits
\* Cancelled and, from the cancellation on, no PlanReady, Completed or Failed.
C9_CancelledRunEmitsCancelled ==
    \A r \in 1..Len(runs) :
        /\ runs[r].late \cap {"PlanReady", "Completed", "Failed"} = {}
        /\ (runs[r].pc = "end" /\ runs[r].late # {}) => "Cancelled" \in runs[r].late

\* a sync run that was cancelled during execute, emitted Completed after that and
\* returned without Cancelled
C9_Witness ==
    \E r \in 1..Len(runs) :
        /\ runs[r].kind = "sync"
        /\ runs[r].pc = "end"
        /\ "Completed" \in runs[r].late
        /\ ~ Emitted(r, "Cancelled")

\* the number of times ev occurs in the terminal events received for a run
Count(evs, ev) == Cardinality({i \in 1..Len(evs) : evs[i] = ev})

\* C10: for each run id the consumer receives at most one Cancelled, and never
\* Cancelled together with Completed or Failed, also when cancel_pipeline races
\* with the worker.
C10_SingleCancelled ==
    \A r \in 1..Len(got) :
        /\ Count(got[r], "Cancelled") <= 1
        /\ Count(got[r], "Cancelled") > 0 =>
               Count(got[r], "Completed") + Count(got[r], "Failed") = 0

\* the Cancelled of cancel_pipeline and the Cancelled of the worker, both received
C10_Witness ==
    \E r \in 1..Len(got) : Count(got[r], "Cancelled") = 2

\* C11: the events of every run begin with Started and end with exactly one of
\* Completed, Failed or Cancelled; the run emits nothing after its terminal event.
C11_RunEventsWellFormed ==
    \A r \in 1..Len(runs) :
        /\ runs[r].first # NoneV => runs[r].first = Some("Started")
        /\ runs[r].post = {}
        /\ runs[r].pc = "end" => Cardinality(runs[r].sent \cap TerminalEvents) = 1

\* a sync run that emitted ScanStats, from its scan after the sync, after Completed
C11_Witness ==
    \E r \in 1..Len(runs) :
        /\ runs[r].kind = "sync"
        /\ runs[r].first = Some("Started")
        /\ "Completed" \in runs[r].sent
        /\ "ScanStats" \in runs[r].post

\* Pending, then Running, then one of Succeeded, Failed, Skipped
Rank(status) == CASE status = "Pending" -> 0 [] status = "Running" -> 1 [] OTHER -> 2

\* C12: in the consumer's pipeline state, within one run a step moves only forward
\* along Pending, Running, then Succeeded, Failed or Skipped, never changes again
\* once it is Succeeded, Failed or Skipped, and at most one step is Running.
C12_StepsMoveForward ==
    /\ \A m \in moves : Rank(m[1]) < 2 /\ Rank(m[1]) < Rank(m[2])
    /\ Cardinality({st \in DOMAIN app.steps : app.steps[st] = "Running"}) <= 1

\* the Diff step, failed by the Cancelled of cancel_pipeline, succeeds by PlanReady
C12_Witness ==
    /\ <<"Failed", "Succeeded">> \in moves
    /\ app.steps["Diff"] = "Succeeded"
    /\ app.error

----------------------------------------------------------------------------
(* Differ: fleet-core/src/diff.rs, path_utils.rs                               *)

MaxDiffMods == 2    \* mods per manifest
MaxDiffFiles == 1   \* files per mod

\* char::to_lowercase on the letters of the model
to_lowercase_char(c) ==
    CASE c = "A" -> "a" [] c = "B" -> "b" [] c = "P" -> "p" [] c = "R" -> "r"
      [] c = "T" -> "t" [] c = "X" -> "x" [] OTHER -> c

to_lowercase(s) == [i \in 1..Len(s) |-> to_lowercase_char(s[i])]

\* FleetPath::canonicalize
FleetPathCanonicalize(path) == to_lowercase(FleetPathNormalize(path))

\* the actions of a SyncPlan as diff fills them (the size of a download is left out)
PlanDownload(mod_name, file) ==
    [mod_name |-> mod_name, rel_path |-> file.path, expected_checksum |-> file.checksum]
VerificationAction(path, checksum) == [path |-> path, expected_checksum |-> checksum]

SyncPlan(renames, checks, downloads, deletes) ==
    [renames |-> renames, checks |-> checks, downloads |-> downloads, deletes |-> deletes]

\* Iterator::map over a sequence
MapSeq(s, Op(_)) == [i \in 1..Len(s) |-> Op(s[i])]

\* HashMap::get on local_files, collected from the files in order: the last one
\* inserted under a key is the one kept
LocalFileAt(local_mod, key) ==
    LET at == {i \in 1..Len(local_mod.files) :
                   FleetPathCanonicalize(local_mod.files[i].path) = key}
    IN  IF at = {} THEN NoneV
        ELSE Some(local_mod.files[CHOOSE i \in at : \A j \in at : j <= i])

\* the branch of diff_files that pushes a download for a remote file
NeedsDownload(remote_file, local_mod) ==
    LET found == LocalFileAt(local_mod, FleetPathCanonicalize(remote_file.path))
    IN  IF found = NoneV THEN TRUE ELSE Get(found).checksum # remote_file.checksum

\* diff_files: the downloads, checks and deletes of one matched mod
diff_files(remote_mod, local_mod) ==
    LET visited_files == {FleetPathCanonicalize(remote_mod.files[i].path) :
                              i \in 1..Len(remote_mod.files)}
        local_of(f) == Get(LocalFileAt(local_mod, FleetPathCanonicalize(f.path)))
    IN  [downloads |->
             MapSeq(SelectSeq(remote_mod.files, LAMBDA f : NeedsDownload(f, local_mod)),
                    LAMBDA f : PlanDownload(remote_mod.name, f)),
         checks |->
             MapSeq(SelectSeq(remote_mod.files, LAMBDA f : ~ NeedsDownload(f, local_mod)),
                    LAMBDA f : VerificationAction(Join(local_mod.name, local_of(f).path),
                                                  local_of(f).checksum)),
         deletes |->
             MapSeq(SelectSeq(local_mod.files,
                              LAMBDA f : FleetPathCanonicalize(f.path) \notin visited_files),
                    LAMBDA f : DeleteAction(Join(local_mod.name, f.path)))]

\* local_groups.get(key): the local mods whose lowercased name is the remote's
Candidates(remote_mod, local) ==
    SelectSeq(local, LAMBDA m : to_lowercase(m.name) = to_lowercase(remote_mod.name))

\* survivor_entry: the candidate named exactly as the remote mod, else the first
Survivor(candidates, remote_mod) ==
    LET exact == {i \in 1..Len(candidates) : candidates[i].name = remote_mod.name}
    IN  IF exact = {} THEN candidates[1]
        ELSE candidates[CHOOSE i \in exact : \A j \in exact : i <= j]

\* the body of the loop of diff over the remote mods; acc holds the four lists and
\* claimed_local_mods
DiffMod(acc, remote_mod, local) ==
    LET candidates == Candidates(remote_mod, local)
    IN  IF candidates = <<>>
        THEN [acc EXCEPT !.downloads =
                  @ \o MapSeq(remote_mod.files, LAMBDA f : PlanDownload(remote_mod.name, f))]
        ELSE LET survivor == Survivor(candidates, remote_mod)
                 others == SelectSeq(candidates, LAMBDA m : m.name # survivor.name)
                 files == diff_files(remote_mod, survivor)
             IN  [renames |-> acc.renames \o
                       (IF survivor.name # remote_mod.name
                        THEN <<RenameAction(survivor.name, remote_mod.name)>> ELSE <<>>),
                  checks |-> acc.checks \o files.checks,
                  downloads |-> acc.downloads \o files.downloads,
                  deletes |-> acc.deletes \o MapSeq(others, LAMBDA m : DeleteAction(m.name))
                                          \o files.deletes,
                  claimed |-> acc.claimed \cup {candidates[i].name : i \in 1..Len(candidates)}]

RECURSIVE DiffMods(_, _, _)
DiffMods(acc, remote, local) ==
    IF remote = <<>> THEN acc
    ELSE DiffMods(DiffMod(acc, Head(remote), local), Tail(remote), local)

\* diff
diff(remote, local) ==
    LET acc == DiffMods([renames |-> <<>>, checks |-> <<>>, downloads |-> <<>>,
                         deletes |-> <<>>, claimed |-> {}], remote, local)
    IN  SyncPlan(acc.renames, acc.checks, acc.downloads,
                 acc.deletes \o MapSeq(SelectSeq(local, LAMBDA m : m.name \notin acc.claimed),
                                       LAMBDA m : DeleteAction(m.name)))

\* The plan applied to a manifest in the order of execute (deletes, renames,
\* downloads; a verification check keeps the local file as it is)

\* remove_dir_all of a mod folder, or remove_file of mod/file
ApplyDelete(m, action) ==
    IF \E i \in 1..Len(m) : m[i].name = action.path
    THEN SelectSeq(m, LAMBDA md : md.name # action.path)
    ELSE MapSeq(m, LAMBDA md :
                    Mod(md.name, SelectSeq(md.files,
                                           LAMBDA f : Join(md.name, f.path) # action.path)))

ApplyRename(m, action) ==
    MapSeq(m, LAMBDA md : IF md.name = action.old_path
                          THEN Mod(action.new_path, md.files) ELSE md)

\* the downloaded file replaces the file of the same canonical key, in a mod folder
\* created when it is missing
ApplyDownload(m, action) ==
    LET file == File(action.rel_path, action.expected_checksum, <<>>)
        put(md) == Mod(md.name,
                       Append(SelectSeq(md.files,
                                        LAMBDA f : FleetPathCanonicalize(f.path)
                                                       # FleetPathCanonicalize(file.path)),
                              file))
    IN  IF \E i \in 1..Len(m) : m[i].name = action.mod_name
        THEN MapSeq(m, LAMBDA md : IF md.name = action.mod_name THEN put(md) ELSE md)
        ELSE Append(m, Mod(action.mod_name, <<file>>))

RECURSIVE ApplyDeletes(_, _)
ApplyDeletes(m, actions) ==
    IF actions = <<>> THEN m ELSE ApplyDeletes(ApplyDelete(m, Head(actions)), Tail(actions))

RECURSIVE ApplyRenames(_, _)
ApplyRenames(m, actions) ==
    IF actions = <<>> THEN m ELSE ApplyRenames(ApplyRename(m, Head(actions)), Tail(actions))

RECURSIVE ApplyDownloads(_, _)
ApplyDownloads(m, actions) ==
    IF actions = <<>> THEN m
    ELSE ApplyDownloads(ApplyDownload(m, Head(actions)), Tail(actions))

ApplyPlan(plan, local) ==
    ApplyDownloads(ApplyRenames(ApplyDeletes(local, plan.deletes), plan.renames),
                   plan.downloads)

\* the mods of a manifest by name, the files of a mod by canonical key and checksum
ModNames(m) == {m[i].name : i \in 1..Len(m)}
FilesOf(m, name) ==
    UNION {{<<FleetPathCanonicalize(m[i].files[j].path), m[i].files[j].checksum>> :
                j \in 1..Len(m[i].files)} : i \in {k \in 1..Len(m) : m[k].name = name}}

\* the manifests handed to diff: mod folders @a, @A and @b, no name twice, files that
\* differ in case, in separator and in checksum, one with the empty checksum
DiffFiles ==
    { File(<<"a">>, <<"b">>, <<>>), File(<<"A">>, <<"b">>, <<>>), File(<<"a">>, <<>>, <<>>),
      File(<<"p", "\\", "a">>, <<"t">>, <<>>), File(<<"p", "/", "a">>, <<"t">>, <<>>) }
DiffModNames == {ModA, <<"@", "A">>, ModB}
DiffManifests ==
    {m \in SeqsUpTo({Mod(n, fs) : n \in DiffModNames, fs \in SeqsUpTo(DiffFiles, MaxDiffFiles)},
                    MaxDiffMods) : \A i, j \in 1..Len(m) : i # j => m[i].name # m[j].name}

DiffInit ==
    /\ StoreIdle /\ DlIdle /\ EngIdle /\ OrchIdle /\ PlanIdle /\ SyncIdle /\ OpenIdle /\ KvIdle /\ StaleIdle /\ TrkIdle
    /\ diffRemote \in DiffManifests
    /\ diffLocal \in DiffManifests
    /\ diffPlan = NoneV

\* compute_plan / fast_check call diff(remote, local)
DiffCall ==
    /\ diffPlan = NoneV
    /\ diffPlan' = Some(diff(diffRemote, diffLocal))
    /\ UNCHANGED <<diffRemote, diffLocal, nonDiffVars>>

DiffNext == DiffCall

SpecDiff == DiffInit /\ [][DiffNext]_vars

Range(q) == {q[i] : i \in 1..Len(q)}

\* the mods that hold a file: a mod folder without files leaves no trace in a plan
ModsWithFiles(m) == {n \in ModNames(m) : FilesOf(m, n) # {}}

\* C13: applying diff(R, L) to L at manifest level yields exactly R's mods and, in
\* each mod, exactly R's files with R's checksums, modulo path normalization (mods
\* are compared by the files they hold, paths by their canonical key).
C13_PlanTurnsLocalIntoRemote ==
    diffPlan # NoneV =>
        LET result == ApplyPlan(Get(diffPlan), diffLocal)
        IN  /\ ModsWithFiles(result) = ModsWithFiles(diffRemote)
            /\ \A n \in ModNames(diffRemote) : FilesOf(result, n) = FilesOf(diffRemote, n)

\* local equals remote, with two mods named alike but for case, each holding a file:
\* the plan applied leaves no mod
C13_Witness ==
    /\ diffPlan # NoneV
    /\ diffRemote = diffLocal
    /\ Cardinality(ModsWithFiles(diffRemote)) = 2
    /\ ApplyPlan(Get(diffPlan), diffLocal) = <<>>

\* C14: diff(M, M) is the empty plan: no rename, no download, no delete.
C14_DiffOfEqualIsEmpty ==
    (diffPlan # NoneV /\ diffRemote = diffLocal) =>
        /\ Get(diffPlan).renames = <<>>
        /\ Get(diffPlan).downloads = <<>>
        /\ Get(diffPlan).deletes = <<>>

\* diff of a manifest with itself that deletes both of its mods
C14_Witness ==
    /\ diffPlan # NoneV
    /\ diffRemote = diffLocal
    /\ Len(Get(diffPlan).deletes) = 2
    /\ Range(Get(diffPlan).deletes) = {DeleteAction(n) : n \in ModNames(diffLocal)}

\* the local mods diff keeps as survivors, and the whole-mod deletes of a plan
Survivors(remote, local) ==
    {Survivor(Candidates(remote[i], local), remote[i]).name :
         i \in {k \in 1..Len(remote) : Candidates(remote[k], local) # <<>>}}
WholeModDeletes(plan, local) ==
    {i \in 1..Len(plan.deletes) : plan.deletes[i].path \in ModNames(local)}

\* C15: in the plan of diff no local mod folder is both whole-mod deleted and
\* renamed or kept as a survivor, and none is whole-mod deleted more than once.
C15_WholeModDeletesDisjoint ==
    diffPlan # NoneV =>
        LET plan == Get(diffPlan)
            whole == WholeModDeletes(plan, diffLocal)
        IN  /\ \A i \in whole :
                  /\ plan.deletes[i].path \notin Survivors(diffRemote, diffLocal)
                  /\ \A j \in 1..Len(plan.renames) :
                         plan.renames[j].old_path # plan.deletes[i].path
            /\ \A i, j \in whole : i # j => plan.deletes[i].path # plan.deletes[j].path

\* a survivor that the plan also deletes whole
C15_Witness ==
    /\ diffPlan # NoneV
    /\ \E i \in WholeModDeletes(Get(diffPlan), diffLocal) :
           Get(diffPlan).deletes[i].path \in Survivors(diffRemote, diffLocal)

\* C16: for every local file with the empty checksum whose canonical key matches a
\* remote file in its matched mod, diff emits a download and no verification check.
C16_DirtyFileIsDownloaded ==
    diffPlan # NoneV =>
        \A i \in {k \in 1..Len(diffRemote) : Candidates(diffRemote[k], diffLocal) # <<>>} :
            LET remote_mod == diffRemote[i]
                survivor == Survivor(Candidates(remote_mod, diffLocal), remote_mod)
            IN  \A j \in 1..Len(remote_mod.files) :
                    LET found == LocalFileAt(survivor,
                                             FleetPathCanonicalize(remote_mod.files[j].path))
                    IN  (found # NoneV /\ Get(found).checksum = <<>>) =>
                            /\ PlanDownload(remote_mod.name, remote_mod.files[j])
                                   \in Range(Get(diffPlan).downloads)
                            /\ VerificationAction(Join(survivor.name, Get(found).path), <<>>)
                                   \notin Range(Get(diffPlan).checks)

\* a local file with the empty checksum matched by a remote file whose checksum is
\* empty too: diff emits a verification check and no download
C16_Witness ==
    /\ diffPlan # NoneV
    /\ Get(diffPlan).downloads = <<>>
    /\ \E c \in Range(Get(diffPlan).checks) : c.expected_checksum = <<>>
    /\ \E i \in 1..Len(diffLocal) : \E j \in 1..Len(diffLocal[i].files) :
           diffLocal[i].files[j].checksum = <<>>

----------------------------------------------------------------------------
(* Planning functions of the engine: fleet-pipeline/src/sync/engine.rs *)

MaxSummaryMods == 2    \* mods per summary
MaxSummaryFiles == 1   \* files per mod summary

\* every ordering of a finite set: the order in which a HashMap yields its keys
Orderings(S) == {q \in [1..Cardinality(S) -> S] : \A x \in S : \E i \in DOMAIN q : q[i] = x}

\* HashMap collected from (rel_path, (mtime, size)) pairs: the last file under a
\* key is the one kept
MtimeSizeMap(files) ==
    [rel \in {files[i].rel_path : i \in 1..Len(files)} |->
        LET last == CHOOSE i \in 1..Len(files) :
                        /\ files[i].rel_path = rel
                        /\ \A j \in (i + 1)..Len(files) : files[j].rel_path # rel
        IN  <<files[last].mtime, files[last].size>>]

\* the mutant: a file counts as changed only when its size differs
EntryDiffersBySizeOnly(l, r) == l[2] # r[2]
\* l_mtime != mtime || l_size != size
EntryDiffers(l, r) == l[1] # r[1] \/ l[2] # r[2]

\* diff_summary: the paths changed, missing and extra, each as a set (the vectors
\* are filled in the maps' iteration order)
diff_summary(repo, local) ==
    LET repo_map == MtimeSizeMap(repo.files)
        local_map == MtimeSizeMap(local.files)
    IN  [changed_files |-> {rel \in DOMAIN repo_map :
                               rel \in DOMAIN local_map /\ EntryDiffers(local_map[rel], repo_map[rel])},
         missing_files |-> {rel \in DOMAIN repo_map : rel \notin DOMAIN local_map},
         extra_files |-> DOMAIN local_map \ DOMAIN repo_map]

\* fleet_core::DownloadAction as build_fast_plan fills it
FastDownload(mod_name, file) ==
    [mod_name |-> mod_name, rel_path |-> file.rel_path, size |-> file.size,
     expected_checksum |-> file.checksum]

\* repo_mod.files.iter().find(|f| &f.rel_path == rel)
FindFile(files, rel) ==
    files[CHOOSE i \in 1..Len(files) :
              /\ files[i].rel_path = rel
              /\ \A j \in 1..(i - 1) : files[j].rel_path # rel]

\* current_map: mod_name -> summary, the last summary under a name kept
CurrentMap(current) ==
    [n \in {current[i].mod_name : i \in 1..Len(current)} |->
        current[CHOOSE i \in 1..Len(current) :
                    /\ current[i].mod_name = n
                    /\ \A j \in (i + 1)..Len(current) : current[j].mod_name # n]]

\* the body of build_fast_plan's loop for one expected mod: every pair of download
\* and delete vectors the iteration orders allow
FastPlanOfMod(repo_mod, current) ==
    LET current_map == CurrentMap(current)
    IN  IF repo_mod.mod_name \in DOMAIN current_map
        THEN LET d == diff_summary(repo_mod, current_map[repo_mod.mod_name])
             IN  { [downloads |-> [i \in 1..Len(c \o m) |->
                                      FastDownload(repo_mod.mod_name,
                                                   FindFile(repo_mod.files, (c \o m)[i]))],
                    deletes |-> [i \in 1..Len(e) |->
                                    DeleteAction(Join(repo_mod.mod_name, e[i]))]] :
                   c \in Orderings(d.changed_files), m \in Orderings(d.missing_files),
                   e \in Orderings(d.extra_files) }
        ELSE { [downloads |-> [i \in 1..Len(repo_mod.files) |->
                                  FastDownload(repo_mod.mod_name, repo_mod.files[i])],
                deletes |-> <<>>] }

RECURSIVE FastPlanOfMods(_, _, _)
FastPlanOfMods(expected, current, k) ==
    IF k = 0 THEN { [downloads |-> <<>>, deletes |-> <<>>] }
    ELSE { [downloads |-> acc.downloads \o one.downloads,
            deletes |-> acc.deletes \o one.deletes] :
           acc \in FastPlanOfMods(expected, current, k - 1),
           one \in FastPlanOfMod(expected[k], current) }

\* the whole-mod deletes: current mods no expected mod has the name of
OrphanModDeletes(expected, current) ==
    LET orphan(m) == \A i \in 1..Len(expected) : expected[i].mod_name # m.mod_name
        kept == SelectSeq(current, orphan)
    IN  [i \in 1..Len(kept) |-> DeleteAction(kept[i].mod_name)]

\* build_fast_plan: the plans it can return
build_fast_plan(expected, current) ==
    { SyncPlan(<<>>, <<>>, acc.downloads, acc.deletes \o OrphanModDeletes(expected, current)) :
      acc \in FastPlanOfMods(expected, current, Len(expected)) }

EmptySyncPlan == SyncPlan(<<>>, <<>>, <<>>, <<>>)

\* Result<Vec<LocalManifestSummary>, String> of ManifestStore::load_summary
LoadedSummary(summary) == [kind |-> "Ok", summary |-> summary, msg |-> "None"]
LoadSummaryErr(msg) == [kind |-> "Err", summary |-> <<>>, msg |-> msg]

PlanOk(plan) == [kind |-> "Ok", plan |-> plan, msg |-> "None"]

\* compute_local_integrity_plan: the results it can return, given what
\* manifest_store.load_summary returned and local.summary
compute_local_integrity_plan(loaded, local_summary) ==
    IF loaded.kind = "Err" THEN { PlanOk(EmptySyncPlan) }
    ELSE IF local_summary = NoneV THEN { PlanOk(EmptySyncPlan) }
    ELSE { PlanOk(p) : p \in build_fast_plan(loaded.summary, Get(local_summary)) }

\* fleet_core::repo::RepoMod and the fleet_core::Mod of a mod.srf
RepoMod(mod_name, checksum) == [mod_name |-> mod_name, checksum |-> checksum]
SrfMod(name, checksum, files) == [name |-> name, checksum |-> checksum, files |-> files]

SyncModes == {"CacheOnly", "MetadataOnly", "SmartVerify", "FullRehash", "FastCheck"}

\* the mutant: a baseline mod is reused in every mode
ReuseInEveryMode(mode) == TRUE
\* !matches!(req.mode, SyncMode::CacheOnly)
ReuseAllowed(mode) == mode # "CacheOnly"

\* the loop over repository.required_mods: found_locally for the mod at index i
FoundLocally(rmod, last_known_manifest, mode) ==
    /\ last_known_manifest # NoneV
    /\ LET mods == Get(last_known_manifest)
           named == {j \in 1..Len(mods) : mods[j].name = rmod.mod_name}
       IN  /\ named # {}
           /\ LET first == CHOOSE j \in named : \A k \in named : j <= k
              IN  mods[first].checksum = rmod.checksum /\ ReuseAllowed(mode)

\* local.mods.iter().find(|m| m.name == rmod.mod_name)
FindMod(mods, name) ==
    mods[CHOOSE j \in 1..Len(mods) :
             /\ mods[j].name = name
             /\ \A k \in 1..(j - 1) : mods[k].name # name]

\* what the repository serves for a required mod
ServedMod(rmod) == SrfMod(rmod.mod_name, rmod.checksum, <<File(RelX, <<"t">>, <<>>)>>)

FetchOk(manifest, fetch_stats, requested) ==
    [kind |-> "Ok", manifest |-> manifest, stats |-> fetch_stats, requested |-> requested]
FetchRemoteErr(requested) ==
    [kind |-> "Remote", manifest |-> <<>>,
     stats |-> [mods_total |-> 0, mods_fetched |-> 0, mods_cached |-> 0],
     requested |-> requested]

SaturatingSub(a, b) == IF a >= b THEN a - b ELSE 0

\* fetch_remote_state from the loop over required_mods on: the results it can
\* return; failing is the set of mod names whose mod.srf request fails, and the
\* requests complete in any order (buffer_unordered)
fetch_remote_state(required, last_known_manifest, mode, failing) ==
    LET found(i) == FoundLocally(required[i], last_known_manifest, mode)
        reusedIdx == SelectSeq([i \in 1..Len(required) |-> i], found)
        fetchIdx == SelectSeq([i \in 1..Len(required) |-> i], LAMBDA i : ~ found(i))
        mods == [k \in 1..Len(reusedIdx) |->
                    FindMod(Get(last_known_manifest), required[reusedIdx[k]].mod_name)]
        stats_ == [mods_total |-> Len(required), mods_fetched |-> Len(fetchIdx),
                   mods_cached |-> SaturatingSub(Len(required), Len(fetchIdx))]
    IN  { IF \E k \in 1..Len(done) : required[done[k]].mod_name \in failing
          THEN FetchRemoteErr(fetchIdx)
          ELSE FetchOk(mods \o [k \in 1..Len(done) |-> ServedMod(required[done[k]])],
                       stats_, fetchIdx) :
          done \in Orderings({fetchIdx[k] : k \in 1..Len(fetchIdx)}) }

\* ---- the calls the specification makes

SummaryEntries == {EntryOld, EntryNew, [mtime |-> 2, size |-> 1, checksum |-> <<"A">>]}
SummaryFiles == {FileSummary(rel, e) : rel \in {RelX, <<"a">>}, e \in SummaryEntries}
SummaryMods ==
    {ModSummary(n, fs) : n \in {ModA, ModB},
                         fs \in {q \in SeqsUpTo(SummaryFiles, MaxSummaryFiles) :
                                    \A i, j \in 1..Len(q) : i # j => q[i].rel_path # q[j].rel_path}}
\* summaries as the scanner and compute_summary_from_manifest build them: one
\* entry per mod folder, one entry per file of the mod
Summaries ==
    {q \in SeqsUpTo(SummaryMods, MaxSummaryMods) :
        \A i, j \in 1..Len(q) : i # j => q[i].mod_name # q[j].mod_name}

LoadSummaryResults ==
    {LoadedSummary(SummaryOne), LoadedSummary(<<>>),
     LoadSummaryErr("busy"), LoadSummaryErr("missing"), LoadSummaryErr("parse")}

RepoMods == {RepoMod(n, c) : n \in {ModA, ModB}, c \in {<<"A">>, <<"b">>}}
BaselineMods == {SrfMod(n, c, <<>>) : n \in {ModA, ModB}, c \in {<<"A">>, <<"b">>}}
Baselines ==
    {NoneV} \cup
    {Some(q) : q \in {m \in SeqsUpTo(BaselineMods, MaxSummaryMods) :
                         \A i, j \in 1..Len(m) : i # j => m[i].name # m[j].name}}

PlanCalls ==
    {[op |-> "build_fast_plan", expected |-> e, current |-> c] :
        e \in Summaries, c \in Summaries}
    \cup {[op |-> "compute_local_integrity_plan", loaded |-> l, summary |-> c] :
        l \in LoadSummaryResults, c \in {NoneV, Some(SummaryOne), Some(SummaryTwo)}}
    \cup {[op |-> "fetch_remote_state", required |-> r, baseline |-> b, mode |-> m,
           failing |-> f] :
        r \in SeqsUpTo(RepoMods, MaxSummaryMods), b \in Baselines, m \in SyncModes,
        f \in SUBSET {ModA, ModB}}

PlanInit ==
    /\ StoreIdle /\ DlIdle /\ EngIdle /\ OrchIdle /\ DiffIdle /\ SyncIdle /\ OpenIdle /\ KvIdle /\ StaleIdle /\ TrkIdle
    /\ fnCall \in PlanCalls
    /\ fnPc = "call"
    /\ fnRet = [kind |-> "None"]

BuildFastPlan ==
    /\ fnPc = "call" /\ fnCall.op = "build_fast_plan"
    /\ \E p \in build_fast_plan(fnCall.expected, fnCall.current) : fnRet' = PlanOk(p)
    /\ fnPc' = "done"
    /\ UNCHANGED <<fnCall, nonPlanVars>>

ComputeLocalIntegrityPlan ==
    /\ fnPc = "call" /\ fnCall.op = "compute_local_integrity_plan"
    /\ fnRet' \in compute_local_integrity_plan(fnCall.loaded, fnCall.summary)
    /\ fnPc' = "done"
    /\ UNCHANGED <<fnCall, nonPlanVars>>

FetchRemoteState ==
    /\ fnPc = "call" /\ fnCall.op = "fetch_remote_state"
    /\ fnRet' \in fetch_remote_state(fnCall.required, fnCall.baseline, fnCall.mode,
                                     fnCall.failing)
    /\ fnPc' = "done"
    /\ UNCHANGED <<fnCall, nonPlanVars>>

PlanNext == BuildFastPlan \/ ComputeLocalIntegrityPlan \/ FetchRemoteState

SpecPlan == PlanInit /\ [][PlanNext]_vars

\* ---- build_fast_plan

FastPlanDone == fnPc = "done" /\ fnCall.op = "build_fast_plan"

\* the file of the summary's mod `name` at `rel`, as a set (empty when absent)
SummaryFileAt(summary, name, rel) ==
    {f \in UNION {Range(summary[i].files) : i \in {j \in 1..Len(summary) : summary[j].mod_name = name}} :
        f.rel_path = rel}
SummaryModNames(summary) == {summary[i].mod_name : i \in 1..Len(summary)}

\* the expected files absent from current or whose (mtime, size) differ
StaleFiles(expected, current) ==
    UNION { { <<expected[i].mod_name, g.rel_path>> :
                g \in {f \in Range(expected[i].files) :
                          \A c \in SummaryFileAt(current, expected[i].mod_name, f.rel_path) :
                              c.mtime # f.mtime \/ c.size # f.size} } :
            i \in 1..Len(expected) }

\* the current files absent from expected, in mods present in both
ExtraFilePaths(expected, current) ==
    UNION { { Join(current[i].mod_name, g.rel_path) :
                g \in {f \in Range(current[i].files) :
                          SummaryFileAt(expected, current[i].mod_name, f.rel_path) = {}} } :
            i \in {j \in 1..Len(current) : current[j].mod_name \in SummaryModNames(expected)} }

IntegrityPlanDone == fnPc = "done" /\ fnCall.op = "compute_local_integrity_plan"

\* C26: when the baseline cannot be loaded because another process holds it
\* open, compute_local_integrity_plan returns a Local error reporting the busy
\* condition, not an empty or partial plan
C26_BusyBaselineIsLocalError ==
    IntegrityPlanDone /\ fnCall.loaded = LoadSummaryErr("busy") =>
        fnRet.kind = "Local" /\ fnRet.msg = "busy"

\* the busy baseline read as "nothing to do"
C26_Witness ==
    /\ IntegrityPlanDone
    /\ fnCall.loaded = LoadSummaryErr("busy")
    /\ fnCall.summary = Some(SummaryTwo)
    /\ fnRet = PlanOk(EmptySyncPlan)

\* ---- fetch_remote_state

FetchDone == fnPc = "done" /\ fnCall.op = "fetch_remote_state"

\* the baseline holds a mod with the required mod's name and checksum
BaselineHolds(rmod) ==
    /\ fnCall.baseline # NoneV
    /\ \E m \in Range(Get(fnCall.baseline)) :
           m.name = rmod.mod_name /\ m.checksum = rmod.checksum

\* the required mods (by index) a mod.srf must be requested for
MustRequest ==
    {i \in 1..Len(fnCall.required) :
        fnCall.mode = "CacheOnly" \/ ~ BaselineHolds(fnCall.required[i])}

\* how many mods of the sequence carry the name
CountNamed(mods, name) == Cardinality({k \in 1..Len(mods) : mods[k].name = name})

----------------------------------------------------------------------------
(* Local state, the scanner and sync round trips:                          *)
(* fleet-pipeline/src/sync/local.rs, engine.rs, execute.rs, fleet-scanner  *)

MaxSyncCalls == 3      \* engine, provider and scanner calls and outside changes per run

\* a file of the root: what fs::metadata reports and what hashing it would give
SyncFile(mtime, size, hash) == [mtime |-> mtime, size |-> size, hash |-> hash]
\* FileCacheEntry
FileCacheEntry(mtime, len, checksum) == [mtime |-> mtime, len |-> len, checksum |-> checksum]

\* ScanCache::get of the cache of a mod: the key is normalized
CacheGet(cache, mod_name, rel_path) ==
    LET key == <<mod_name, FleetPathNormalize(rel_path)>>
    IN  IF key \in DOMAIN cache THEN Some(cache[key]) ELSE NoneV

\* the entry matches what the file system reports for the file
CacheHit(cache, t, mod_name, rel) ==
    LET hit == CacheGet(cache, mod_name, rel)
    IN  /\ hit # NoneV
        /\ Get(hit).len = t[<<mod_name, rel>>].size
        /\ Get(hit).mtime = t[<<mod_name, rel>>].mtime

\* the folders of the root named @..., and the files walked under one
ModFolders(t) == {k[1] : k \in {x \in DOMAIN t : StartsWith(x[1], <<"@">>)}}
RelsOf(t, mod_name) == {k[2] : k \in {x \in DOMAIN t : x[1] = mod_name}}

\* sort_by on the canonical path
SortPaths(S) ==
    CHOOSE q \in Orderings(S) :
        \A i, j \in 1..Len(q) :
            i < j => ~ LexLess(FleetPathCanonicalize(q[j]), FleetPathCanonicalize(q[i]))

\* LocalState, or SyncError::Local; hashed is the set of files whose content was read
LocalOk(manifest, summary, hashed) ==
    [kind |-> "Ok", manifest |-> manifest, summary |-> summary, hashed |-> hashed]
LocalErr == [kind |-> "Local", manifest |-> <<>>, summary |-> NoneV, hashed |-> {}]

\* DefaultLocalStateProvider::cache_only
cache_only(manifest_loaded, summary_loaded) ==
    IF manifest_loaded = NoneV THEN LocalErr
    ELSE LocalOk(Get(manifest_loaded), summary_loaded, {})

\* DefaultLocalStateProvider::metadata_only: the checksum of a file is the cached
\* one when the entry matches its length and mtime, else empty
metadata_only(t, cache) ==
    LET mods == SortPaths(ModFolders(t))
        checksum(m, rel) ==
            IF CacheHit(cache, t, m, rel) THEN Get(CacheGet(cache, m, rel)).checksum ELSE <<>>
        files(m) == LET rels == SortPaths(RelsOf(t, m))
                    IN  [j \in 1..Len(rels) |-> File(rels[j], checksum(m, rels[j]), <<>>)]
        summary(m) ==
            LET rels == SortPaths(RelsOf(t, m))
            IN  [j \in 1..Len(rels) |->
                    FileSummary(rels[j], [mtime |-> t[<<m, rels[j]>>].mtime,
                                          size |-> t[<<m, rels[j]>>].size,
                                          checksum |-> checksum(m, rels[j])])]
    IN  LocalOk([i \in 1..Len(mods) |-> Mod(mods[i], files(mods[i]))],
                Some([i \in 1..Len(mods) |-> ModSummary(mods[i], summary(mods[i]))]), {})

\* the ScanCacheStore handed to the scanner: none, or one whose load_mod_cache and
\* save_mod_cache return Ok or Err
NoScanStore == [present |-> FALSE, load |-> "Ok", cache |-> NoFiles, save |-> "Ok"]
ScanStore(load, cache, save) == [present |-> TRUE, load |-> load, cache |-> cache, save |-> save]

ScanModOk(mod, saved, hashed) == [kind |-> "Ok", mod |-> mod, saved |-> saved, hashed |-> hashed]
ScanModErr == [kind |-> "Cache", mod |-> Mod(<<>>, <<>>), saved |-> NoFiles, hashed |-> {}]

\* the ? on load_mod_cache and save_mod_cache
StoreErrorReturned(outcome) == outcome = "Err"

\* Scanner::scan_mod (the files named *.json or under .git, which the walk leaves
\* out, are not among the files of the model)
scan_mod(t, mod_name, strategy, store) ==
    IF strategy # "ForceRehash" /\ store.present /\ StoreErrorReturned(store.load)
    THEN ScanModErr
    ELSE LET cache == IF strategy = "ForceRehash" \/ ~ store.present THEN NoFiles
                      ELSE store.cache
             rels == SortPaths(RelsOf(t, mod_name))
             cached(rel) ==
                 LET hit == CacheGet(cache, mod_name, rel)
                 IN  /\ hit # NoneV
                     /\ Get(hit).mtime = t[<<mod_name, rel>>].mtime
                     /\ Get(hit).len = t[<<mod_name, rel>>].size
             checksum(rel) == IF cached(rel) THEN Get(CacheGet(cache, mod_name, rel)).checksum
                              ELSE t[<<mod_name, rel>>].hash
             updated == [k \in {<<mod_name, FleetPathNormalize(rels[j])>> : j \in 1..Len(rels)} |->
                            FileCacheEntry(t[k].mtime, t[k].size, checksum(k[2]))]
         IN  IF store.present /\ StoreErrorReturned(store.save) THEN ScanModErr
             ELSE ScanModOk(Mod(mod_name, [j \in 1..Len(rels) |-> File(rels[j], checksum(rels[j]), <<>>)]),
                            updated,
                            {<<mod_name, rels[j]>> : j \in {i \in 1..Len(rels) : ~ cached(rels[i])}})

\* Scanner::scan_directory: the mods in order, or the first error
scan_directory(t, strategy, store) ==
    LET mods == SortPaths(ModFolders(t))
        results == [i \in 1..Len(mods) |-> scan_mod(t, mods[i], strategy, store)]
    IN  IF \E i \in 1..Len(results) : results[i].kind # "Ok"
        THEN [kind |-> "Cache", manifest |-> <<>>, saved |-> <<>>, hashed |-> {}]
        ELSE [kind |-> "Ok", manifest |-> [i \in 1..Len(results) |-> results[i].mod],
              saved |-> [i \in 1..Len(results) |-> results[i].saved],
              hashed |-> UNION {results[i].hashed : i \in 1..Len(results)}]

\* build_summary_from_manifest
build_summary_from_manifest(t, manifest) ==
    LET present == SelectSeq(manifest, LAMBDA m : RelsOf(t, m.name) # {})
        entries(m) ==
            LET found == SelectSeq(m.files, LAMBDA f : <<m.name, f.path>> \in DOMAIN t)
            IN  [j \in 1..Len(found) |->
                    FileSummary(FleetPathNormalize(found[j].path),
                                [mtime |-> t[<<m.name, found[j].path>>].mtime,
                                 size |-> t[<<m.name, found[j].path>>].size,
                                 checksum |-> found[j].checksum])]
    IN  [i \in 1..Len(present) |-> ModSummary(present[i].name, entries(present[i]))]

\* DefaultLocalStateProvider::scan_with_strategy: the provider has no cache store
scan_with_strategy(t, strategy) ==
    LET scanned == scan_directory(t, strategy, NoScanStore)
    IN  IF scanned.kind # "Ok" THEN LocalErr
        ELSE LocalOk(scanned.manifest,
                     Some(build_summary_from_manifest(t, scanned.manifest)), scanned.hashed)

\* fast_check, steps 1 to 3: the file exists, the cache entry matches its size and
\* mtime, and the cached checksum is not empty and is the contract's
FastCheckValid(cache, t, mod_name, contract_file) ==
    /\ <<mod_name, contract_file.path>> \in DOMAIN t
    /\ CacheHit(cache, t, mod_name, contract_file.path)
    /\ Get(CacheGet(cache, mod_name, contract_file.path)).checksum # <<>>
    /\ Get(CacheGet(cache, mod_name, contract_file.path)).checksum = contract_file.checksum

\* DefaultLocalStateProvider::fast_check
fast_check(t, cache, manifest_loaded) ==
    IF manifest_loaded = NoneV THEN LocalOk(<<>>, Some(<<>>), {})
    ELSE LET contract == Get(manifest_loaded)
             exists(m, f) == <<m.name, f.path>> \in DOMAIN t
             valid(m, f) == FastCheckValid(cache, t, m.name, f)
             current_checksum(m, f) ==
                 IF CacheHit(cache, t, m.name, f.path)
                 THEN Get(CacheGet(cache, m.name, f.path)).checksum ELSE <<>>
             kept(m) == SelectSeq(m.files, LAMBDA f : exists(m, f))
             valid_files(m) ==
                 [j \in 1..Len(kept(m)) |->
                     IF valid(m, kept(m)[j]) THEN kept(m)[j]
                     ELSE File(kept(m)[j].path, <<>>, kept(m)[j].parts)]
             summary_files(m) ==
                 [j \in 1..Len(kept(m)) |->
                     FileSummary(kept(m)[j].path,
                                 [mtime |-> t[<<m.name, kept(m)[j].path>>].mtime,
                                  size |-> t[<<m.name, kept(m)[j].path>>].size,
                                  checksum |-> IF valid(m, kept(m)[j]) THEN kept(m)[j].checksum
                                               ELSE current_checksum(m, kept(m)[j])])]
         IN  LocalOk([i \in 1..Len(contract) |-> Mod(contract[i].name, valid_files(contract[i]))],
                     Some([i \in 1..Len(contract) |->
                              ModSummary(contract[i].name, summary_files(contract[i]))]), {})

\* LocalStateProvider::local_state
local_state(mode, t, cache, manifest_loaded, summary_loaded) ==
    CASE mode = "CacheOnly" -> cache_only(manifest_loaded, summary_loaded)
      [] mode = "MetadataOnly" -> metadata_only(t, cache)
      [] mode = "SmartVerify" -> scan_with_strategy(t, "SmartCache")
      [] mode = "FullRehash" -> scan_with_strategy(t, "ForceRehash")
      [] mode = "FastCheck" -> fast_check(t, cache, manifest_loaded)

\* HttpRemoteStateProvider::fetch_mod_srf_internal: the paths of a served mod.srf
\* are normalized at the boundary
FetchedManifest(served) ==
    [i \in 1..Len(served) |->
        Mod(served[i].name,
            [j \in 1..Len(served[i].files) |->
                File(FleetPathNormalize(served[i].files[j].path), served[i].files[j].checksum,
                     served[i].files[j].parts)])]

\* compute_summary_from_manifest on the root t: the normalized path, mtime and size
\* as the file system reports them (mtime 0 and the manifest's length for a file
\* that is not there), the manifest's checksum
SummaryOfManifest(t, manifest) ==
    LET entry(m, f) ==
            LET key == <<m.name, FleetPathNormalize(f.path)>>
            IN  FileSummary(key[2],
                            IF key \in DOMAIN t
                            THEN [mtime |-> t[key].mtime, size |-> t[key].size,
                                  checksum |-> f.checksum]
                            ELSE [mtime |-> 0, size |-> ManifestLength, checksum |-> f.checksum])
    IN  [i \in 1..Len(manifest) |->
            ModSummary(manifest[i].name,
                       [j \in 1..Len(manifest[i].files) |->
                           entry(manifest[i], manifest[i].files[j])])]

\* DefaultPlanExecutor::execute on the root t
\* deletes: remove_dir_all of a mod folder or remove_file of mod/file
TreeDelete(t, action) ==
    LET gone == {k \in DOMAIN t : k[1] = action.path \/ Join(k[1], k[2]) = action.path}
    IN  [k \in DOMAIN t \ gone |-> t[k]]

\* renames: the mod folder is moved when it exists
TreeRename(t, action) ==
    LET moved == {k \in DOMAIN t : k[1] = action.old_path}
    IN  IF moved = {} THEN t
        ELSE [k \in (DOMAIN t \ moved) \cup {<<action.new_path, x[2]>> : x \in moved} |->
                 IF k[1] = action.new_path /\ <<action.old_path, k[2]>> \in moved
                 THEN t[<<action.old_path, k[2]>>] ELSE t[k]]

\* downloads: the verified file at root/mod/normalized path, its mtime set to now
TreeDownload(t, action, mtime) ==
    LET target == <<action.mod_name, FleetPathNormalize(action.rel_path)>>
    IN  [k \in DOMAIN t \cup {target} |->
            IF k = target THEN SyncFile(mtime, ManifestLength, action.expected_checksum)
            ELSE t[k]]

RECURSIVE TreeDeletes(_, _)
TreeDeletes(t, actions) ==
    IF actions = <<>> THEN t ELSE TreeDeletes(TreeDelete(t, Head(actions)), Tail(actions))

RECURSIVE TreeRenames(_, _)
TreeRenames(t, actions) ==
    IF actions = <<>> THEN t ELSE TreeRenames(TreeRename(t, Head(actions)), Tail(actions))

\* the downloads whose index is not in failed are written
RECURSIVE TreeDownloads(_, _, _, _, _)
TreeDownloads(t, actions, i, failed, mtime) ==
    IF i > Len(actions) THEN t
    ELSE TreeDownloads(IF i \in failed THEN t ELSE TreeDownload(t, actions[i], mtime),
                       actions, i + 1, failed, mtime)

ExecuteOnTree(t, plan, failed, mtime) ==
    TreeDownloads(TreeRenames(TreeDeletes(t, plan.deletes), plan.renames),
                  plan.downloads, 1, failed, mtime)

\* the sets of downloads (by index) that can fail: a download whose expected
\* checksum is empty never passes the downloader's verification
FailedSets(plan) ==
    {f \in SUBSET (1..Len(plan.downloads)) :
        \A i \in 1..Len(plan.downloads) : plan.downloads[i].expected_checksum = <<>> => i \in f}

\* the targets of the downloads of a plan
DownloadTargets(plan) ==
    {<<plan.downloads[i].mod_name, FleetPathNormalize(plan.downloads[i].rel_path)>> :
        i \in 1..Len(plan.downloads)}

\* what the last call was, for the call after it
Prev == [op |-> syncLast.op, mode |-> syncLast.mode, kind |-> syncLast.kind]
NoPrev == [op |-> "None", mode |-> "None", kind |-> "None"]

Last(op, mode, kind, plan, executed, committed, local, prev) ==
    [op |-> op, mode |-> mode, kind |-> kind, plan |-> plan, executed |-> executed,
     committed |-> committed, local |-> local, prev |-> prev]

\* ---- the roots, repositories and caches of the specification

\* the served manifests: two files; a path with a backslash; a file with the
\* empty checksum
SyncRemotes ==
    { <<Mod(ModA, <<File(RelX, <<"A">>, <<>>), File(<<"a">>, <<"b">>, <<>>)>>)>>,
      <<Mod(ModA, <<File(RelBackslash, <<"A">>, <<>>)>>)>>,
      <<Mod(ModA, <<File(RelX, <<>>, <<>>), File(<<"a">>, <<"b">>, <<>>)>>)>> }

\* the roots: empty; @a/x as the repository has it; @a/x with other content; @a/x
\* and a file the repository does not have
SyncTrees ==
    { NoFiles,
      [k \in {<<ModA, RelX>>} |-> SyncFile(1, 1, <<"A">>)],
      [k \in {<<ModA, RelX>>} |-> SyncFile(1, 2, <<"t">>)],
      [k \in {<<ModA, RelX>>, <<ModA, <<"t">>>>} |-> SyncFile(1, 1, <<"A">>)] }

\* the scan cache files: none, or an entry for @a/x
SyncCaches ==
    { NoFiles, [k \in {<<ModA, RelX>>} |-> FileCacheEntry(1, 1, <<"A">>)] }

SyncInit ==
    /\ StoreIdle /\ DlIdle /\ EngIdle /\ OrchIdle /\ DiffIdle /\ PlanIdle /\ OpenIdle /\ KvIdle /\ StaleIdle /\ TrkIdle
    /\ syncRemote \in SyncRemotes
    /\ tree \in SyncTrees
    /\ scanCache \in SyncCaches
    /\ baseManifest = NoneV
    /\ baseSummary = NoneV
    /\ syncLast = Last("None", "None", "None", EmptySyncPlan, FALSE, FALSE, LocalErr, NoPrev)
    /\ fsNow = 1

\* DefaultSyncEngine::plan_and_execute: fetch, scan, diff, execute, commit; failed
\* is the set of downloads (by index) that fail
PlanAndExecute(mode) ==
    /\ fsNow <= MaxSyncCalls
    /\ fsNow' = fsNow + 1
    /\ \E manifest \in {FetchedManifest(syncRemote)},
          local \in {local_state(mode, tree, scanCache, baseManifest, baseSummary)} :
           IF local.kind # "Ok"
           THEN /\ syncLast' = Last("plan_and_execute", mode, "Local", EmptySyncPlan, FALSE,
                                    FALSE, local, Prev)
                /\ UNCHANGED <<tree, baseManifest, baseSummary>>
           ELSE \E plan \in {diff(manifest, local.manifest)} :
                    IF Len(plan.deletes) = 0 /\ Len(plan.renames) = 0 /\ Len(plan.downloads) = 0
                    THEN /\ syncLast' = Last("plan_and_execute", mode, "Ok", plan, FALSE, FALSE,
                                             local, Prev)
                         /\ UNCHANGED <<tree, baseManifest, baseSummary>>
                    ELSE \E failed \in FailedSets(plan) :
                         \E after \in {ExecuteOnTree(tree, plan, failed, fsNow + 1)} :
                                /\ tree' = after
                                /\ IF failed # {}
                                   THEN /\ syncLast' = Last("plan_and_execute", mode, "Execution",
                                                            plan, FALSE, FALSE, local, Prev)
                                        /\ UNCHANGED <<baseManifest, baseSummary>>
                                   ELSE /\ baseManifest' = Some(manifest)
                                        /\ baseSummary' = Some(SummaryOfManifest(after, manifest))
                                        /\ syncLast' = Last("plan_and_execute", mode, "Ok", plan,
                                                            TRUE, TRUE, local, Prev)
    /\ UNCHANGED <<scanCache, syncRemote, nonSyncVars>>

\* DefaultSyncEngine::plan: fetch, scan, diff
SyncPlanOnly(mode) ==
    /\ fsNow <= MaxSyncCalls
    /\ fsNow' = fsNow + 1
    /\ \E local \in {local_state(mode, tree, scanCache, baseManifest, baseSummary)} :
           syncLast' =
               IF local.kind # "Ok"
               THEN Last("plan", mode, "Local", EmptySyncPlan, FALSE, FALSE, local, Prev)
               ELSE Last("plan", mode, "Ok", diff(FetchedManifest(syncRemote), local.manifest),
                         FALSE, FALSE, local, Prev)
    /\ UNCHANGED <<tree, scanCache, baseManifest, baseSummary, syncRemote, nonSyncVars>>

\* DefaultSyncEngine::scan_local_state
ScanLocalState(mode) ==
    /\ fsNow <= MaxSyncCalls
    /\ fsNow' = fsNow + 1
    /\ \E local \in {local_state(mode, tree, scanCache, baseManifest, baseSummary)} :
           syncLast' = Last("scan_local_state", mode, local.kind, EmptySyncPlan, FALSE, FALSE,
                            local, Prev)
    /\ UNCHANGED <<tree, scanCache, baseManifest, baseSummary, syncRemote, nonSyncVars>>

\* Scanner::scan_directory with a cache store whose load and save return Ok or Err
ScanDirectory(strategy, load, save) ==
    /\ fsNow <= MaxSyncCalls
    /\ fsNow' = fsNow + 1
    /\ \E scanned \in {scan_directory(tree, strategy, ScanStore(load, scanCache, save))} :
           syncLast' = Last("scan_directory", strategy, scanned.kind, EmptySyncPlan, FALSE, FALSE,
                            LocalOk(scanned.manifest, NoneV, scanned.hashed),
                            [op |-> "store", mode |-> load, kind |-> save])
    /\ UNCHANGED <<tree, scanCache, baseManifest, baseSummary, syncRemote, nonSyncVars>>

\* something outside the program rewrites a file (new mtime, or new mtime and
\* size), or removes it
OutsideChange(key, change) ==
    /\ fsNow <= MaxSyncCalls
    /\ fsNow' = fsNow + 1
    /\ key \in DOMAIN tree
    /\ tree' = CASE change = "touch" -> [tree EXCEPT ![key].mtime = fsNow']
                 [] change = "grow" -> [tree EXCEPT ![key].mtime = fsNow', ![key].size = @ + 1,
                                                    ![key].hash = <<"t">>]
                 [] change = "remove" -> [k \in DOMAIN tree \ {key} |-> tree[k]]
    /\ syncLast' = Last("outside", change, "Ok", EmptySyncPlan, FALSE, FALSE, LocalErr, Prev)
    /\ UNCHANGED <<scanCache, baseManifest, baseSummary, syncRemote, nonSyncVars>>

SyncNext ==
    \/ \E mode \in SyncModes : PlanAndExecute(mode)
    \/ \E mode \in SyncModes : SyncPlanOnly(mode)
    \/ \E mode \in SyncModes : ScanLocalState(mode)
    \/ \E strategy \in {"SmartCache", "ForceRehash"}, load, save \in {"Ok", "Err"} :
           ScanDirectory(strategy, load, save)
    \/ \E key \in DOMAIN tree, change \in {"touch", "grow", "remove"} : OutsideChange(key, change)

SpecSync == SyncInit /\ [][SyncNext]_vars

\* ---- the scanner and a cache store that fails

ScanDone == syncLast.op = "scan_directory"
LoadFailed == syncLast.prev.mode = "Err"
SaveFailed == syncLast.prev.kind = "Err"
AllFiles == {k \in DOMAIN tree : StartsWith(k[1], <<"@">>)}

\* C27: when the cache store cannot load the scan cache, a SmartCache or
\* ForceRehash scan still succeeds and treats every file as a cache miss; when the
\* store cannot save the cache at the end of a mod scan, the scan succeeds too
C27_CacheFailureDoesNotFailScan ==
    ScanDone /\ (LoadFailed \/ SaveFailed) =>
        /\ syncLast.kind = "Ok"
        /\ LoadFailed => syncLast.local.hashed = AllFiles

\* a SmartCache scan of a root with a file, failed by the load of the cache
C27_Witness ==
    /\ ScanDone
    /\ syncLast.mode = "SmartCache"
    /\ LoadFailed /\ ~ SaveFailed
    /\ AllFiles # {}
    /\ syncLast.kind = "Cache"

\* ---- the commit of a sync

Committed == syncLast.op = "plan_and_execute" /\ syncLast.committed

\* the files of a baseline manifest and of a baseline summary, by mod and
\* normalized path
ManifestFileSet(manifest) ==
    UNION {{<<manifest[i].name, FleetPathNormalize(manifest[i].files[j].path)>> :
                j \in 1..Len(manifest[i].files)} : i \in 1..Len(manifest)}
SummaryFileSet(summary) ==
    UNION {{<<summary[i].mod_name, summary[i].files[j].rel_path>> :
                j \in 1..Len(summary[i].files)} : i \in 1..Len(summary)}
SummaryEntryAt(summary, key) ==
    {f \in UNION {Range(summary[i].files) :
                     i \in {j \in 1..Len(summary) : summary[j].mod_name = key[1]}} :
        f.rel_path = key[2]}

\* C25: after a commit the baseline manifest and the baseline summary hold the
\* same mods and the same files per mod, and for every file the sync downloaded
\* the scan cache holds an entry whose (mtime, size, checksum) is the file's entry
\* of the baseline summary
C25_CommitLeavesBaselineAndCacheConsistent ==
    Committed =>
        /\ [i \in 1..Len(Get(baseManifest)) |-> Get(baseManifest)[i].name]
               = [i \in 1..Len(Get(baseSummary)) |-> Get(baseSummary)[i].mod_name]
        /\ ManifestFileSet(Get(baseManifest)) = SummaryFileSet(Get(baseSummary))
        /\ \A key \in DownloadTargets(syncLast.plan) :
               /\ key \in DOMAIN scanCache
               /\ \E f \in SummaryEntryAt(Get(baseSummary), key) :
                      /\ scanCache[key].mtime = f.mtime
                      /\ scanCache[key].len = f.size
                      /\ scanCache[key].checksum = f.checksum

\* a commit after which the cache has no entry for a downloaded file
C25_Witness ==
    /\ Committed
    /\ syncLast.mode = "FullRehash"
    /\ <<ModA, <<"a">>>> \in DownloadTargets(syncLast.plan)
    /\ <<ModA, <<"a">>>> \in DOMAIN tree
    /\ <<ModA, <<"a">>>> \notin DOMAIN scanCache
    /\ ManifestFileSet(Get(baseManifest)) = SummaryFileSet(Get(baseSummary))

\* ---- sync round trips

AfterSync(modes) ==
    /\ syncLast.prev.op = "plan_and_execute"
    /\ syncLast.prev.kind = "Ok"
    /\ syncLast.prev.mode \in modes

\* C24: after a successful plan_and_execute in SmartVerify or FullRehash mode,
\* with no change since, plan(FastCheck) against the same repository has no
\* download and no delete
C24_FastCheckAfterVerifiedSyncIsClean ==
    syncLast.op = "plan" /\ syncLast.mode = "FastCheck"
        /\ AfterSync({"SmartVerify", "FullRehash"}) =>
        /\ syncLast.kind = "Ok"
        /\ syncLast.plan.downloads = <<>>
        /\ syncLast.plan.deletes = <<>>

\* plan(FastCheck) right after a FullRehash sync that committed the baseline plans
\* a download of every file of the baseline
C24_Witness ==
    /\ syncLast.op = "plan" /\ syncLast.mode = "FastCheck"
    /\ AfterSync({"FullRehash"})
    /\ baseManifest # NoneV
    /\ tree = [k \in {<<ModA, RelX>>, <<ModA, <<"a">>>>} |->
                  IF k[2] = RelX THEN SyncFile(2, 1, <<"A">>) ELSE SyncFile(2, 1, <<"b">>)]
    /\ Len(syncLast.plan.downloads) = 2

\* C23: a plan_and_execute that follows a successful plan_and_execute with the same
\* request, the repository and the root unchanged in between, computes a plan
\* without downloads, deletes and renames, returns executed = false and commits
\* nothing
C23_SecondSyncIsNoOp ==
    syncLast.op = "plan_and_execute" /\ AfterSync({syncLast.mode}) =>
        /\ syncLast.kind = "Ok"
        /\ syncLast.plan.downloads = <<>>
        /\ syncLast.plan.deletes = <<>>
        /\ syncLast.plan.renames = <<>>
        /\ ~ syncLast.executed
        /\ ~ syncLast.committed

\* a second MetadataOnly sync that downloads again what the first one downloaded
C23_Witness ==
    /\ syncLast.op = "plan_and_execute" /\ syncLast.mode = "MetadataOnly"
    /\ AfterSync({"MetadataOnly"})
    /\ syncLast.kind = "Ok"
    /\ syncLast.executed /\ syncLast.committed
    /\ Len(syncLast.plan.downloads) = 2
    /\ fsNow = 3

\* ---- FastCheck over the baseline

FastCheckDone ==
    /\ syncLast.op \in {"plan", "scan_local_state"}
    /\ syncLast.mode = "FastCheck"
    /\ syncLast.kind = "Ok"
    /\ baseManifest # NoneV

\* the records the local manifest holds for a file of a mod
ReportedAt(manifest, mod_name, path) ==
    {f \in UNION {Range(manifest[i].files) :
                     i \in {k \in 1..Len(manifest) : manifest[k].name = mod_name}} :
        f.path = path}

\* the file is there, a cache entry matches its size and mtime, and the cached
\* checksum is the baseline's
BaselineFileIntact(mod_name, f) ==
    /\ <<mod_name, f.path>> \in DOMAIN tree
    /\ CacheHit(scanCache, tree, mod_name, f.path)
    /\ Get(CacheGet(scanCache, mod_name, f.path)).checksum = f.checksum

\* the classification of every baseline file by fast_check
FastCheckClassifies ==
    \A i \in 1..Len(Get(baseManifest)) :
        \A j \in 1..Len(Get(baseManifest)[i].files) :
            \E m \in {Get(baseManifest)[i]} :
            \E f \in {m.files[j]} :
            \E reported \in {ReportedAt(syncLast.local.manifest, m.name, f.path)} :
                /\ BaselineFileIntact(m.name, f) => reported = {f}
                /\ <<m.name, f.path>> \in DOMAIN tree /\ ~ BaselineFileIntact(m.name, f) =>
                       reported = {File(f.path, <<>>, f.parts)}
                /\ <<m.name, f.path>> \notin DOMAIN tree => reported = {}

\* the baseline files that are gone or whose size or mtime is not the cached one
ChangedBaselineFiles ==
    UNION {{<<Get(baseManifest)[i].name, Get(baseManifest)[i].files[j].path>> :
                j \in {k \in 1..Len(Get(baseManifest)[i].files) :
                          \/ <<Get(baseManifest)[i].name, Get(baseManifest)[i].files[k].path>>
                                 \notin DOMAIN tree
                          \/ ~ CacheHit(scanCache, tree, Get(baseManifest)[i].name,
                                        Get(baseManifest)[i].files[k].path)}} :
           i \in 1..Len(Get(baseManifest))}

\* C28: FastCheck reads no file content and reports every file of the baseline as
\* valid (the baseline record) iff the file exists, a cache entry matches its size
\* and mtime and the cached checksum is the baseline's; as dirty (empty checksum)
\* iff it exists and one of these fails; as missing (left out) iff it does not
\* exist; and the plan of a FastCheck downloads every baseline file that is gone
\* or whose size or mtime changed
C28_FastCheckClassifiesAndReplansChanges ==
    FastCheckDone =>
        /\ syncLast.local.hashed = {}
        /\ FastCheckClassifies
        /\ syncLast.op = "plan" => ChangedBaselineFiles \subseteq DownloadTargets(syncLast.plan)

\* plan(FastCheck) right after @a/x, a baseline file with the empty checksum, was
\* touched: the file is reported dirty and no download of it is planned
C28_Witness ==
    /\ FastCheckDone
    /\ syncLast.op = "plan"
    /\ syncLast.prev.op = "outside" /\ syncLast.prev.mode = "touch"
    /\ <<ModA, RelX>> \in ChangedBaselineFiles
    /\ <<ModA, RelX>> \in DOMAIN tree
    /\ ReportedAt(syncLast.local.manifest, ModA, RelX) = {File(RelX, <<>>, <<>>)}
    /\ <<ModA, RelX>> \notin DownloadTargets(syncLast.plan)

----------------------------------------------------------------------------
(* The store file, the process-wide handle cache, validate and quarantine:
   fleet-persistence redb_store.rs, maintenance.rs *)

MaxOpenCalls == 3     \* store operations started per behaviour
Threads == {1, 2}

CURRENT_SCHEMA == 1
AllTables == {"meta", "baseline", "scan_cache"}

\* a file: bytes that are no redb database, or a redb database with its tables, the
\* meta keys format and schema_version (0: absent or unparsable) and the scan cache
\* updates committed to it
RedbFile(kind, tables, format, schema, data) ==
    [kind |-> kind, tables |-> tables, format |-> format, schema |-> schema, data |-> data]
GarbageFile == RedbFile("garbage", {}, "none", 0, {})
\* Database::create: a database without tables
CreatedFile == RedbFile("redb", {}, "none", 0, {})

\* RedbFleetDataStore::ensure_schema: its result and the file it leaves
ensure_schema(f) ==
    IF f.format = "none"
    THEN [res |-> "Ok",
          file |-> [f EXCEPT !.format = "fleet-redb", !.schema = CURRENT_SCHEMA,
                             !.tables = AllTables]]
    ELSE IF f.format # "fleet-redb" THEN [res |-> "Corrupt", file |-> f]
    ELSE [res |-> IF f.schema = 0 THEN "Corrupt"
                  ELSE IF f.schema > CURRENT_SCHEMA THEN "NewerSchema"
                  ELSE IF f.schema # CURRENT_SCHEMA THEN "Corrupt"
                  ELSE "Ok",
          file |-> [f EXCEPT !.tables = AllTables]]

\* a Database of the file is alive: in the handle cache, in a running validate, or
\* in another process
Locked(i, cache) == cache = i \/ otherProcess = i \/ \E t \in Threads : thr[t].db = i

\* redb's Database::open on the file at the path
DatabaseOpen(i, cache) ==
    IF Locked(i, cache) THEN "DatabaseAlreadyOpen"
    ELSE IF redbFiles[i].kind = "garbage" THEN "Corrupt"
    ELSE "Ok"

\* quarantine_corrupt_file: whatever is at the path is renamed; nothing to do when
\* the path does not exist
QuarantineMoves == redbPath
QuarantineSet == IF redbPath = 0 THEN corruptFiles ELSE corruptFiles \cup {redbPath}

\* what an open leaves: its result, the handle, the files, the path, the handle
\* cache, the quarantine, and the files it created, found corrupt and moved
Opened(res, handle, files, path, cache, corrupt, created, saw, moved) ==
    [res |-> res, handle |-> handle, files |-> files, path |-> path, cache |-> cache,
     corrupt |-> corrupt, created |-> created, saw |-> saw, moved |-> moved]

\* open_or_create / open_existing from Database::open on: the path exists and the
\* cache has no entry for it
OpenAtPath ==
    LET i == redbPath
        opened == DatabaseOpen(i, 0)
        e == ensure_schema(redbFiles[i])
        files == [redbFiles EXCEPT ![i] = e.file]
    IN  IF opened = "DatabaseAlreadyOpen"
        THEN Opened("DatabaseAlreadyOpen", 0, redbFiles, i, 0, corruptFiles, 0, 0, 0)
        ELSE IF opened = "Corrupt"
        THEN Opened("Corrupt", 0, redbFiles, 0, 0, QuarantineSet, 0, i, QuarantineMoves)
        ELSE IF e.res = "Ok" THEN Opened("Ok", i, files, i, i, corruptFiles, 0, 0, 0)
        ELSE IF e.res = "Corrupt"
        THEN Opened("Corrupt", 0, files, 0, 0, QuarantineSet, 0, i, QuarantineMoves)
        ELSE Opened(e.res, 0, files, i, 0, corruptFiles, 0, 0, 0)

\* RedbFleetDataStore::open_or_create, the cache mutex held throughout
OpenOrCreate ==
    IF db_cache # 0 /\ redbPath # 0
    THEN Opened("Ok", db_cache, redbFiles, redbPath, db_cache, corruptFiles, 0, 0, 0)
    ELSE IF redbPath # 0 THEN OpenAtPath
    ELSE LET i == Len(redbFiles) + 1
         IN  Opened("Ok", i, Append(redbFiles, ensure_schema(CreatedFile).file), i, i,
                    corruptFiles, i, 0, 0)

\* RedbFleetDataStore::open_existing
OpenExisting ==
    IF redbPath = 0
    THEN Opened("Missing", 0, redbFiles, 0, db_cache, corruptFiles, 0, 0, 0)
    ELSE IF db_cache # 0
    THEN Opened("Ok", db_cache, redbFiles, redbPath, db_cache, corruptFiles, 0, 0, 0)
    ELSE OpenAtPath

\* a thread: the operation, where it is, what it returned, the Database a validate
\* holds, whether the call changed the contents of a file, the files it created,
\* found corrupt and renamed, and what a load returned
Thread(op, pc, ret, held, wrote, created, saw, moved, seen) ==
    [op |-> op, pc |-> pc, ret |-> ret, db |-> held, wrote |-> wrote, created |-> created,
     saw |-> saw, moved |-> moved, seen |-> seen]
IdleThread == Thread("None", "idle", "None", 0, FALSE, 0, 0, 0, {})
Returned(t) == thr[t].pc = "done"
CanStart(t) == thr[t].pc \in {"idle", "done"} /\ openClock < MaxOpenCalls

\* the files the store can find when the process starts: none; bytes that are no
\* database; a database of this version; one created and never populated; one of a
\* newer Fleet that has its meta table only; one of another format; one whose
\* schema_version cannot be read
InitialFiles ==
    { <<>>,
      <<GarbageFile>>,
      <<RedbFile("redb", AllTables, "fleet-redb", CURRENT_SCHEMA, {})>>,
      <<CreatedFile>>,
      <<RedbFile("redb", {"meta"}, "fleet-redb", CURRENT_SCHEMA + 1, {})>>,
      <<RedbFile("redb", AllTables, "other", CURRENT_SCHEMA, {})>>,
      <<RedbFile("redb", AllTables, "fleet-redb", 0, {})>> }

OpenInit ==
    /\ StoreIdle /\ DlIdle /\ EngIdle /\ OrchIdle /\ DiffIdle /\ PlanIdle /\ SyncIdle /\ KvIdle /\ StaleIdle /\ TrkIdle
    /\ redbFiles \in InitialFiles
    /\ redbPath = Len(redbFiles)
    /\ corruptFiles = {}
    /\ db_cache = 0
    /\ otherProcess \in {i \in {0, redbPath} : i = 0 \/ redbFiles[i].kind = "redb"}
    /\ thr = [t \in Threads |-> IdleThread]
    /\ acked = {}
    /\ openClock = 0

\* scan_cache_upsert_batch and commit_repair_snapshot: open_or_create, then one
\* write transaction
StoreWrite(t, op, update) ==
    /\ CanStart(t)
    /\ openClock' = openClock + 1
    /\ \E o \in {OpenOrCreate} :
          /\ redbPath' = o.path
          /\ db_cache' = o.cache
          /\ corruptFiles' = o.corrupt
          /\ IF o.res = "Ok"
             THEN /\ redbFiles' = [o.files EXCEPT ![o.handle].data = @ \cup {update}]
                  /\ acked' = acked \cup {update}
             ELSE /\ redbFiles' = o.files
                  /\ UNCHANGED acked
          /\ thr' = [thr EXCEPT ![t] =
                        Thread(op, "done", o.res, 0, redbFiles' # redbFiles, o.created, o.saw,
                               o.moved, {})]
    /\ UNCHANGED <<otherProcess, nonOpenVars>>

\* scan_cache_load_mod and load_baseline_manifest: open_existing, then one read
\* transaction; scan_cache_load_mod turns a missing file into an empty map
StoreRead(t, op) ==
    /\ CanStart(t)
    /\ openClock' = openClock + 1
    /\ \E o \in {OpenExisting} :
          /\ redbPath' = o.path
          /\ db_cache' = o.cache
          /\ corruptFiles' = o.corrupt
          /\ redbFiles' = o.files
          /\ thr' = [thr EXCEPT ![t] =
                        Thread(op, "done",
                               IF o.res = "Missing" /\ op = "scan_cache_load_mod" THEN "Ok"
                               ELSE o.res,
                               0, redbFiles' # redbFiles, o.created, o.saw, o.moved,
                               IF o.res = "Ok" THEN o.files[o.handle].data ELSE {})]
    /\ UNCHANGED <<otherProcess, acked, nonOpenVars>>

\* validate: `if !path.exists() { return Ok(DbState::Missing) }`
ValidateBegin(t) ==
    /\ CanStart(t)
    /\ openClock' = openClock + 1
    /\ thr' = [thr EXCEPT ![t] =
                  IF redbPath = 0
                  THEN Thread("validate", "done", "Missing", 0, FALSE, 0, 0, 0, {})
                  ELSE Thread("validate", "cache", "None", 0, FALSE, 0, 0, 0, {})]
    /\ UNCHANGED <<redbFiles, redbPath, corruptFiles, db_cache, otherProcess, acked, nonOpenVars>>

\* validate: the look into the handle cache, under its mutex
ValidateCache(t) ==
    /\ thr[t].op = "validate" /\ thr[t].pc = "cache"
    /\ IF db_cache # 0
       THEN IF redbPath = 0
            THEN /\ db_cache' = 0
                 /\ thr' = [thr EXCEPT ![t].pc = "done", ![t].ret = "Missing"]
            ELSE /\ UNCHANGED db_cache
                 /\ thr' = [thr EXCEPT ![t].pc = "done", ![t].ret = "Valid"]
       ELSE /\ UNCHANGED db_cache
            /\ thr' = [thr EXCEPT ![t].pc = "open"]
    /\ UNCHANGED <<redbFiles, redbPath, corruptFiles, otherProcess, acked, openClock, nonOpenVars>>

\* validate: Database::open, the mutex released
ValidateOpen(t) ==
    /\ thr[t].op = "validate" /\ thr[t].pc = "open"
    /\ thr' = [thr EXCEPT ![t] =
                  IF redbPath = 0 THEN [@ EXCEPT !.pc = "done", !.ret = "Io"]
                  ELSE IF DatabaseOpen(redbPath, db_cache) = "DatabaseAlreadyOpen"
                  THEN [@ EXCEPT !.pc = "done", !.ret = "Busy"]
                  ELSE IF DatabaseOpen(redbPath, db_cache) = "Corrupt"
                  THEN [@ EXCEPT !.pc = "quarantine", !.saw = redbPath]
                  ELSE [@ EXCEPT !.pc = "schema", !.db = redbPath]]
    /\ UNCHANGED <<redbFiles, redbPath, corruptFiles, db_cache, otherProcess, acked, openClock,
                   nonOpenVars>>

\* validate: ensure_schema on the Database it opened, and the match on its result
ValidateSchema(t) ==
    /\ thr[t].op = "validate" /\ thr[t].pc = "schema"
    /\ \E i \in {thr[t].db} :
       \E e \in {ensure_schema(redbFiles[i])} :
          /\ redbFiles' = [redbFiles EXCEPT ![i] = e.file]
          /\ thr' = [thr EXCEPT ![t] =
                        IF e.res = "Ok"
                        THEN [@ EXCEPT !.pc = "done", !.ret = "Valid", !.db = 0,
                                       !.wrote = e.file # redbFiles[i]]
                        ELSE IF e.res = "NewerSchema"
                        THEN [@ EXCEPT !.pc = "done", !.ret = "NewerSchema", !.db = 0,
                                       !.wrote = e.file # redbFiles[i]]
                        ELSE [@ EXCEPT !.pc = "quarantine", !.saw = i, !.db = 0,
                                       !.wrote = e.file # redbFiles[i]]]
    /\ UNCHANGED <<redbPath, corruptFiles, db_cache, otherProcess, acked, openClock, nonOpenVars>>

\* validate: `let _ = quarantine_corrupt_file(&path); Ok(DbState::Corrupt)`
ValidateQuarantine(t) ==
    /\ thr[t].op = "validate" /\ thr[t].pc = "quarantine"
    /\ corruptFiles' = QuarantineSet
    /\ redbPath' = 0
    /\ thr' = [thr EXCEPT ![t].pc = "done", ![t].ret = "Corrupt", ![t].moved = QuarantineMoves]
    /\ UNCHANGED <<redbFiles, db_cache, otherProcess, acked, openClock, nonOpenVars>>

OpenNext ==
    \/ \E t \in Threads, op \in {"scan_cache_upsert_batch", "commit_repair_snapshot"} :
          StoreWrite(t, op, openClock + 1)
    \/ \E t \in Threads, op \in {"scan_cache_load_mod", "load_baseline_manifest"} :
          StoreRead(t, op)
    \/ \E t \in Threads : ValidateBegin(t)
    \/ \E t \in Threads : ValidateCache(t)
    \/ \E t \in Threads : ValidateOpen(t)
    \/ \E t \in Threads : ValidateSchema(t)
    \/ \E t \in Threads : ValidateQuarantine(t)

SpecOpen == OpenInit /\ [][OpenNext]_vars

ValidateReturned(t) == thr[t].op = "validate" /\ Returned(t)

\* C31: validate changes neither the store file nor its contents when it returns
\* Missing, Valid, Busy or NewerSchema: no table created, no meta key written, no
\* quarantine; the one mutation it ever performs is the quarantine of a file it
\* classifies as Corrupt
C31_ValidateOnlyQuarantines ==
    \A t \in Threads :
        ValidateReturned(t) =>
            /\ ~ thr[t].wrote
            /\ thr[t].moved # 0 => thr[t].ret = "Corrupt"

\* validate found a database of a newer Fleet that had its meta table only,
\* created the two other tables in it and returned NewerSchema
C31_Witness ==
    \E t \in Threads :
        /\ ValidateReturned(t)
        /\ thr[t].ret = "NewerSchema"
        /\ thr[t].wrote
        /\ redbPath # 0
        /\ redbFiles[redbPath].tables = AllTables
        /\ corruptFiles = {}

FoundCorrupt(t) == Returned(t) /\ thr[t].ret = "Corrupt"

\* C32: when validate or an open detects corruption of the store file, that file
\* is quarantined exactly once: it is among the fleet.redb.corrupt.* files and no
\* longer at the path, the operation renamed no other file, it returns Corrupt and
\* it created no store file
C32_CorruptFileQuarantinedOnce ==
    \A t \in Threads :
        FoundCorrupt(t) =>
            /\ thr[t].saw \in corruptFiles
            /\ redbPath # thr[t].saw
            /\ thr[t].moved \in {0, thr[t].saw}
            /\ thr[t].created = 0

\* a validate that found the file corrupt and then renamed the store another
\* thread had created meanwhile: two fleet.redb.corrupt.* files, one of them a
\* valid store holding a committed update
C32_Witness ==
    \E t \in Threads :
        /\ FoundCorrupt(t)
        /\ thr[t].op = "validate"
        /\ thr[t].moved # 0 /\ thr[t].moved # thr[t].saw
        /\ Cardinality(corruptFiles) = 2
        /\ ensure_schema(redbFiles[thr[t].moved]).res = "Ok"
        /\ redbFiles[thr[t].moved].data # {}

\* what scan_cache_load_mod returns now
VisibleUpdates == IF redbPath = 0 THEN {} ELSE redbFiles[redbPath].data

\* C33: within one process, in any interleaving of validate, loads and writes on
\* the same root, no operation fails with DatabaseAlreadyOpen or reports Busy
\* because of another operation of the process, and every committed update stays
\* visible
C33_OneHandlePerProcess ==
    otherProcess = 0 =>
        /\ \A t \in Threads : Returned(t) => thr[t].ret \notin {"DatabaseAlreadyOpen", "Busy"}
        /\ acked \subseteq VisibleUpdates

\* no other process has the file, one thread is inside validate with its own
\* Database open, and a load of the other thread failed with DatabaseAlreadyOpen
C33_Witness ==
    /\ otherProcess = 0
    /\ \E t, u \in Threads :
          /\ thr[t].op = "validate" /\ thr[t].pc = "schema" /\ thr[t].db = redbPath
          /\ thr[u].op = "scan_cache_load_mod"
          /\ Returned(u) /\ thr[u].ret = "DatabaseAlreadyOpen"

----------------------------------------------------------------------------
(* The scan cache and the baseline as the store's operations leave them:
   fleet-persistence redb_store.rs, cache_key.rs, paths.rs *)

MaxKvCalls == 2       \* store calls per behaviour
MaxKvRecords == 2     \* cache records per call

ModAB == <<"@", "a", "b">>
ModSoh == <<"@", "a", "SOH">>
RelSlash == <<"p", "/", "x">>
RelAbsolute == <<"/", "x">>
RelDrive == <<"a", ":", "x">>
RelDot == <<"p", "/", ".", "/", "x">>
RelDoubleDots == <<"a", ".", ".", "b">>

KvMods == {ModA, ModAB, ModSoh, ModNul}
KvRels == {RelX, RelBackslash, RelSlash, RelTraversal, RelAbsolute, RelDrive, RelDot, RelDoubleDots}

\* CacheKey::rel_path_from_prefixed_key: strip_prefix
rel_path_from_prefixed_key(prefix, full_key) ==
    IF StartsWith(full_key, prefix)
    THEN Some(SubSeq(full_key, Len(prefix) + 1, Len(full_key)))
    ELSE NoneV

\* the keys of a table within range_for_mod(mod_name)
KeysInRange(c, mod_name) == {key \in DOMAIN c : InRange(key, range_for_mod(mod_name))}

KvOk(c) == [res |-> Ok, cache |-> c]
KvErr(res, c) == [res |-> res, cache |-> c]

\* scan_cache_load_mod: Ok(map) or Err(InvalidPath)
scan_cache_load_mod(c, mod_name) ==
    IF ~ validate_mod_name(mod_name) THEN [res |-> InvalidPath, map |-> NoFiles]
    ELSE LET start == range_for_mod(mod_name).start
             rows == {key \in KeysInRange(c, mod_name) :
                         rel_path_from_prefixed_key(start, key) # NoneV}
         IN  [res |-> Ok,
              map |-> [rel \in {Get(rel_path_from_prefixed_key(start, key)) : key \in rows} |->
                          c[start \o rel]]]

\* scan_cache_delete_file
scan_cache_delete_file(c, mod_name, rel_path) ==
    IF ~ validate_mod_name(mod_name) THEN KvErr(InvalidPath, c)
    ELSE IF ~ normalize_rel_path(rel_path).ok THEN KvErr(InvalidPath, c)
    ELSE KvOk(CacheRemove(c, CacheKeyToBytes(mod_name, normalize_rel_path(rel_path).val)))

\* scan_cache_delete_mod
scan_cache_delete_mod(c, mod_name) ==
    IF ~ validate_mod_name(mod_name) THEN KvErr(InvalidPath, c)
    ELSE KvOk([k \in DOMAIN c \ KeysInRange(c, mod_name) |-> c[k]])

\* scan_cache_rename_file: insert under the new key, then remove the old key
scan_cache_rename_file(c, mod_name, old_rel_path, new_rel_path) ==
    IF ~ validate_mod_name(mod_name) THEN KvErr(InvalidPath, c)
    ELSE IF ~ normalize_rel_path(old_rel_path).ok THEN KvErr(InvalidPath, c)
    ELSE IF ~ normalize_rel_path(new_rel_path).ok THEN KvErr(InvalidPath, c)
    ELSE LET old_key == CacheKeyToBytes(mod_name, normalize_rel_path(old_rel_path).val)
             new_key == CacheKeyToBytes(mod_name, normalize_rel_path(new_rel_path).val)
         IN  IF old_key \in DOMAIN c
             THEN KvOk(CacheRemove(CachePut(c, new_key, c[old_key]), old_key))
             ELSE KvOk(c)

\* one loop of commit_sync_snapshot over its records, stopping at the first error
RECURSIVE StageSeq(_, _, _)
StageSeq(st, recs, kind) ==
    IF ~ st.ok \/ recs = <<>> THEN st
    ELSE StageSeq(CASE kind = "deletes" -> StageDelete(st.cache, Head(recs))
                    [] kind = "renames" -> StageRename(st.cache, Head(recs))
                    [] kind = "updates" -> StageUpsert(st.cache, Head(recs)),
                  Tail(recs), kind)

\* the loops in another order: upserts, then renames, then deletes
StagedUpsertsFirst(c, updates, deletes, renames) ==
    StageSeq(StageSeq(StageSeq(StageOk(c), updates, "updates"), renames, "renames"),
             deletes, "deletes")
\* the scan cache part of commit_sync_snapshot: deletes, then renames, then upserts
StagedByCommit(c, updates, deletes, renames) ==
    StageSeq(StageSeq(StageSeq(StageOk(c), deletes, "deletes"), renames, "renames"),
             updates, "updates")

\* the entries of a scan_cache_upsert_batch call as upsert records of its mod
BatchRecords(mod_name, entries) ==
    [i \in 1..Len(entries) |-> UpsertRec(mod_name, entries[i].rel_path, entries[i])]

CacheUpsert(rel, e) ==
    [rel_path |-> rel, mtime |-> e.mtime, size |-> e.size, checksum |-> e.checksum]

\* what a call leaves for inspection
KvCall(op, res, mod_name, rels, manifest, summary, updates, deletes, renames, pre, loaded) ==
    [op |-> op, res |-> res, mod_name |-> mod_name, rels |-> rels, manifest |-> manifest,
     summary |-> summary, updates |-> updates, deletes |-> deletes, renames |-> renames,
     pre |-> pre, loaded |-> loaded]

\* the table and the baseline before a call
KvPre == [cache |-> kvCache, manifest |-> kvManifest, summary |-> kvSummary]

\* the tables a store can hold when a behaviour starts
KvInitialCaches ==
    { NoFiles,
      [k \in {CacheKeyToBytes(ModA, RelX), CacheKeyToBytes(ModAB, RelX),
              CacheKeyToBytes(ModSoh, RelX)} |-> EntryOld],
      [k \in {CacheKeyToBytes(ModA, RelX), CacheKeyToBytes(ModA, RelSlash)} |->
          IF k = CacheKeyToBytes(ModA, RelX) THEN EntryOld ELSE EntryNew] }

KvInit ==
    /\ StoreIdle /\ DlIdle /\ EngIdle /\ OrchIdle /\ DiffIdle /\ PlanIdle /\ SyncIdle /\ OpenIdle /\ StaleIdle /\ TrkIdle
    /\ kvCache \in KvInitialCaches
    /\ kvManifest = NoneV
    /\ kvSummary = NoneV
    /\ kvLast = KvCall("None", "None", <<>>, <<>>, <<>>, <<>>, <<>>, <<>>, <<>>,
                     [cache |-> NoFiles, manifest |-> NoneV, summary |-> NoneV], NoFiles)
    /\ kvClock = 0

KvStep ==
    /\ kvClock < MaxKvCalls
    /\ kvClock' = kvClock + 1
    /\ UNCHANGED nonKvVars

KvUpsertBatch(mod_name, entries) ==
    /\ KvStep
    /\ \E st \in {IF validate_mod_name(mod_name)
                  THEN StageSeq(StageOk(kvCache), BatchRecords(mod_name, entries), "updates")
                  ELSE StageErr} :
          /\ kvCache' = IF st.ok THEN st.cache ELSE kvCache
          /\ kvLast' = KvCall("scan_cache_upsert_batch", IF st.ok THEN Ok ELSE InvalidPath,
                              mod_name, <<>>, <<>>, <<>>, BatchRecords(mod_name, entries), <<>>,
                              <<>>, KvPre, NoFiles)
    /\ UNCHANGED <<kvManifest, kvSummary>>

KvDeleteFile(mod_name, rel_path) ==
    /\ KvStep
    /\ \E r \in {scan_cache_delete_file(kvCache, mod_name, rel_path)} :
          /\ kvCache' = r.cache
          /\ kvLast' = KvCall("scan_cache_delete_file", r.res, mod_name, <<rel_path>>, <<>>, <<>>,
                              <<>>, <<>>, <<>>, KvPre, NoFiles)
    /\ UNCHANGED <<kvManifest, kvSummary>>

KvDeleteMod(mod_name) ==
    /\ KvStep
    /\ \E r \in {scan_cache_delete_mod(kvCache, mod_name)} :
          /\ kvCache' = r.cache
          /\ kvLast' = KvCall("scan_cache_delete_mod", r.res, mod_name, <<>>, <<>>, <<>>, <<>>,
                              <<>>, <<>>, KvPre, NoFiles)
    /\ UNCHANGED <<kvManifest, kvSummary>>

KvRenameFile(mod_name, old_rel_path, new_rel_path) ==
    /\ KvStep
    /\ \E r \in {scan_cache_rename_file(kvCache, mod_name, old_rel_path, new_rel_path)} :
          /\ kvCache' = r.cache
          /\ kvLast' = KvCall("scan_cache_rename_file", r.res, mod_name,
                              <<old_rel_path, new_rel_path>>, <<>>, <<>>, <<>>, <<>>,
                              <<RenameRec(mod_name, old_rel_path, new_rel_path)>>, KvPre,
                              NoFiles)
    /\ UNCHANGED <<kvManifest, kvSummary>>

KvLoadMod(mod_name) ==
    /\ KvStep
    /\ \E r \in {scan_cache_load_mod(kvCache, mod_name)} :
          kvLast' = KvCall("scan_cache_load_mod", r.res, mod_name, <<>>, <<>>, <<>>, <<>>, <<>>,
                           <<>>, KvPre, r.map)
    /\ UNCHANGED <<kvCache, kvManifest, kvSummary>>

\* commit_repair_snapshot: the normalized baseline in one write transaction
KvCommitRepair(manifest, summary) ==
    /\ KvStep
    /\ \E ok \in {normalize_manifest(manifest).ok /\ normalize_summary(summary).ok} :
          /\ kvManifest' = IF ok THEN Some(normalize_manifest(manifest).val) ELSE kvManifest
          /\ kvSummary' = IF ok THEN Some(normalize_summary(summary).val) ELSE kvSummary
          /\ kvLast' = KvCall("commit_repair_snapshot", IF ok THEN Ok ELSE InvalidPath, <<>>,
                              <<>>, manifest, summary, <<>>, <<>>, <<>>, KvPre, NoFiles)
    /\ UNCHANGED kvCache

\* commit_sync_snapshot: the normalized baseline and the cache records in one write
\* transaction
KvCommitSync(manifest, summary, updates, deletes, renames) ==
    /\ KvStep
    /\ \E st \in {IF normalize_manifest(manifest).ok /\ normalize_summary(summary).ok
                  THEN StagedByCommit(kvCache, updates, deletes, renames)
                  ELSE StageErr} :
          /\ kvCache' = IF st.ok THEN st.cache ELSE kvCache
          /\ kvManifest' = IF st.ok THEN Some(normalize_manifest(manifest).val) ELSE kvManifest
          /\ kvSummary' = IF st.ok THEN Some(normalize_summary(summary).val) ELSE kvSummary
          /\ kvLast' = KvCall("commit_sync_snapshot", IF st.ok THEN Ok ELSE InvalidPath, <<>>,
                              <<>>, manifest, summary, updates, deletes, renames, KvPre,
                              NoFiles)

KvUpsertRecs ==
    { UpsertRec(ModA, RelX, EntryNew), UpsertRec(ModA, RelX, EntryOld),
      UpsertRec(ModA, RelBackslash, EntryNew) }
KvDeleteRecs == { DeleteRec(ModA, NoneV), DeleteRec(ModNul, Some(RelX)) }
KvRenameRecs ==
    { RenameRec(ModA, RelX, RelBackslash), RenameRec(ModA, RelX, RelX),
      RenameRec(ModA, RelX, RelDot) }

\* (manifest, summary) arguments of a commit_sync_snapshot call
KvBaselineArgs == { <<ManifestTwo, SummaryTwo>>, <<ManifestBadPart, SummaryOne>> }

\* the batches of a scan_cache_upsert_batch call: none, one entry, or a valid entry
\* followed by another
KvBatches ==
    {<<>>} \cup {<<CacheUpsert(rel, EntryNew)>> : rel \in KvRels}
           \cup {<<CacheUpsert(RelBackslash, EntryOld), CacheUpsert(rel, EntryNew)>> :
                    rel \in KvRels}

KvCommitArgs ==
    { a \in KvBaselineArgs \X SeqsUpTo(KvUpsertRecs, MaxKvRecords)
            \X SeqsUpTo(KvDeleteRecs, MaxKvRecords) \X SeqsUpTo(KvRenameRecs, MaxKvRecords) :
        Len(a[2]) + Len(a[3]) + Len(a[4]) <= MaxKvRecords }

KvNext ==
    \/ \E m \in KvMods, entries \in KvBatches : KvUpsertBatch(m, entries)
    \/ \E m \in KvMods, rel \in KvRels : KvDeleteFile(m, rel)
    \/ \E m \in KvMods : KvDeleteMod(m)
    \/ \E m \in KvMods, old \in {RelX, RelBackslash, RelSlash, RelTraversal},
          new \in {RelX, RelBackslash, RelSlash, RelDot, RelDoubleDots} :
          KvRenameFile(m, old, new)
    \/ \E m \in KvMods : KvLoadMod(m)
    \/ \E a \in BaselineArgs : KvCommitRepair(a[1], a[2])
    \/ \E a \in KvCommitArgs : KvCommitSync(a[1][1], a[1][2], a[2], a[3], a[4])

SpecKv == KvInit /\ [][KvNext]_vars

CommitSyncOk == kvLast.op = "commit_sync_snapshot" /\ kvLast.res = Ok

EntryOf(up) == [mtime |-> up.mtime, size |-> up.size, checksum |-> up.checksum]

\* the last update of a call for the key of its i-th update
LastUpdateOfKey(updates, i) ==
    LET same == {j \in 1..Len(updates) :
                    /\ updates[j].mod_name = updates[i].mod_name
                    /\ FleetPathNormalize(updates[j].rel_path)
                           = FleetPathNormalize(updates[i].rel_path)}
    IN  updates[CHOOSE j \in same : \A k \in same : k <= j]

\* C34 as stated: after commit_sync_snapshot succeeds, for every cache update
\* (mod, rel, mtime, size, checksum) of the call, scan_cache_load_mod(mod).get(rel)
\* returns exactly (mtime, size, checksum)
C34_EveryUpdateIsLoaded ==
    CommitSyncOk =>
        \A i \in 1..Len(kvLast.updates) :
            \E loaded \in {scan_cache_load_mod(kvCache, kvLast.updates[i].mod_name)} :
                /\ loaded.res = Ok
                /\ kvLast.updates[i].rel_path \in DOMAIN loaded.map
                /\ loaded.map[kvLast.updates[i].rel_path] = EntryOf(kvLast.updates[i])

\* C34: after commit_sync_snapshot succeeds, for every cache update (mod, rel, ..)
\* of the call, scan_cache_load_mod(mod) holds under the normalized rel the
\* (mtime, size, checksum) of the last update of the call for that mod and
\* normalized path, also when the same commit deletes that mod or file or renames
\* that key
C34_LastUpdateOfEachKeyIsLoaded ==
    CommitSyncOk =>
        \A i \in 1..Len(kvLast.updates) :
            \E loaded \in {scan_cache_load_mod(kvCache, kvLast.updates[i].mod_name)},
               rel \in {FleetPathNormalize(kvLast.updates[i].rel_path)} :
                /\ loaded.res = Ok
                /\ rel \in DOMAIN loaded.map
                /\ loaded.map[rel] = EntryOf(LastUpdateOfKey(kvLast.updates, i))

\* a commit that deletes the whole mod @a, whose table held @a/x, and upserts @a/x
C34_Witness ==
    /\ CommitSyncOk
    /\ kvLast.updates = <<UpsertRec(ModA, RelX, EntryNew)>>
    /\ kvLast.deletes = <<DeleteRec(ModA, NoneV)>>
    /\ CacheKeyToBytes(ModA, RelX) \in DOMAIN kvLast.pre.cache
    /\ kvLast.pre.cache[CacheKeyToBytes(ModA, RelX)] = EntryOld
    /\ kvCache[CacheKeyToBytes(ModA, RelX)] = EntryNew

\* the entries stored under a mod: the keys mod_name, NUL, rel
StoredUnder(c, mod_name) == {key \in DOMAIN c : StartsWith(key, mod_name \o <<"NUL">>)}

\* C35: for mod names a and b without NUL and a # b, also when one is a byte
\* prefix of the other, scan_cache_delete_mod(a) removes the entries stored under
\* a and leaves every other entry unchanged, and scan_cache_load_mod(a) returns
\* the entries stored under a and no other
C35_ModRangesAreDisjoint ==
    /\ kvLast.op = "scan_cache_delete_mod" /\ kvLast.res = Ok =>
          /\ DOMAIN kvCache = DOMAIN kvLast.pre.cache \ StoredUnder(kvLast.pre.cache, kvLast.mod_name)
          /\ \A key \in DOMAIN kvCache : kvCache[key] = kvLast.pre.cache[key]
    /\ kvLast.op = "scan_cache_load_mod" /\ kvLast.res = Ok =>
          /\ {kvLast.mod_name \o <<"NUL">> \o rel : rel \in DOMAIN kvLast.loaded}
                = StoredUnder(kvCache, kvLast.mod_name)
          /\ \A rel \in DOMAIN kvLast.loaded :
                kvLast.loaded[rel] = kvCache[kvLast.mod_name \o <<"NUL">> \o rel]

\* scan_cache_delete_mod('@a') on a table that held entries of '@a', of '@ab' and
\* of '@a' followed by the byte 1: only the entry of '@a' is gone
C35_Witness ==
    /\ kvLast.op = "scan_cache_delete_mod" /\ kvLast.res = Ok
    /\ kvLast.mod_name = ModA
    /\ DOMAIN kvLast.pre.cache = {CacheKeyToBytes(ModA, RelX), CacheKeyToBytes(ModAB, RelX),
                                  CacheKeyToBytes(ModSoh, RelX)}
    /\ DOMAIN kvCache = {CacheKeyToBytes(ModAB, RelX), CacheKeyToBytes(ModSoh, RelX)}

\* a relative path as the store may hold it: forward slashes only, not absolute,
\* no '.' and no '..' segment
NotAbsolute(path) ==
    /\ ~ StartsWith(path, <<"/">>)
    /\ ~ (Len(path) > 1 /\ path[2] = ":")
NoDotSegment(path) ==
    \A i \in 1..Len(Split(path, "/")) : Split(path, "/")[i] \notin {<<".">>, <<".", ".">>}
StoredPathOk(path) == ~ Contains(path, "\\") /\ NotAbsolute(path) /\ NoDotSegment(path)
FailsValidation(path) == ~ StoredPathOk(FleetPathNormalize(path))

\* the rel part of a scan cache key
KeyRel(key) ==
    LET nul == CHOOSE i \in 1..Len(key) : key[i] = "NUL" /\ \A j \in 1..(i - 1) : key[j] # "NUL"
    IN  SubSeq(key, nul + 1, Len(key))

ManifestPaths(manifest) ==
    UNION {UNION {{manifest[i].files[j].path} \cup Range(manifest[i].files[j].parts) :
                     j \in 1..Len(manifest[i].files)} : i \in 1..Len(manifest)}
SummaryPaths(summary) ==
    UNION {{summary[i].files[j].rel_path : j \in 1..Len(summary[i].files)} :
              i \in 1..Len(summary)}

\* every relative path the store holds
StoredPaths ==
    {KeyRel(key) : key \in DOMAIN kvCache}
        \cup (IF kvManifest = NoneV THEN {} ELSE ManifestPaths(Get(kvManifest)))
        \cup (IF kvSummary = NoneV THEN {} ELSE SummaryPaths(Get(kvSummary)))

\* the relative paths the last call was given
GivenPaths ==
    Range(kvLast.rels) \cup ManifestPaths(kvLast.manifest) \cup SummaryPaths(kvLast.summary)
        \cup {kvLast.updates[i].rel_path : i \in 1..Len(kvLast.updates)}
        \cup {Get(kvLast.deletes[i].rel_path) :
                 i \in {k \in 1..Len(kvLast.deletes) : kvLast.deletes[k].rel_path # NoneV}}
        \cup UNION {{kvLast.renames[i].old_rel_path, kvLast.renames[i].new_rel_path} :
                       i \in 1..Len(kvLast.renames)}

\* C36: after any sequence of commit_repair_snapshot, commit_sync_snapshot and
\* scan cache upserts, deletes and renames, every relative path in the baseline
\* manifest, the baseline summary and the scan cache has forward slashes only, is
\* not absolute and has no '.' or '..' segment; a call given a path that fails
\* validation returns InvalidPath and stores nothing
C36_StoredPathsAreNormalized ==
    /\ kvLast.op # "None" => \A path \in StoredPaths : StoredPathOk(path)
    /\ kvLast.op \notin {"None", "scan_cache_load_mod", "scan_cache_delete_mod"}
          /\ (\E path \in GivenPaths : FailsValidation(path)) =>
              /\ kvLast.res = InvalidPath
              /\ KvPre = kvLast.pre

\* the store holds p/x in the baseline manifest, the baseline summary and the scan
\* cache after calls that were given p\x, and the last call, given ../x after a
\* valid entry, stored nothing
C36_Witness ==
    /\ kvManifest = Some(normalize_manifest(ManifestTwo).val)
    /\ kvSummary # NoneV
    /\ RelSlash \in SummaryPaths(Get(kvSummary))
    /\ kvLast.op = "scan_cache_upsert_batch"
    /\ kvLast.res = InvalidPath
    /\ Len(kvLast.updates) = 2
    /\ kvLast.updates[2].rel_path = RelTraversal
    /\ CacheKeyToBytes(ModA, RelSlash) \in DOMAIN kvCache
    /\ KvPre = kvLast.pre

\* the one rename of the last call: scan_cache_rename_file, or a commit_sync_snapshot
\* whose only cache record is a rename
RenameDone ==
    /\ kvLast.op \in {"scan_cache_rename_file", "commit_sync_snapshot"}
    /\ kvLast.res = Ok
    /\ Len(kvLast.renames) = 1 /\ kvLast.updates = <<>> /\ kvLast.deletes = <<>>
OldKey == CacheKeyToBytes(kvLast.renames[1].mod_name,
                          FleetPathNormalize(kvLast.renames[1].old_rel_path))
NewKey == CacheKeyToBytes(kvLast.renames[1].mod_name,
                          FleetPathNormalize(kvLast.renames[1].new_rel_path))

\* C39: a rename moves a cache entry without losing it: if the old key exists, the
\* new key holds the old value afterwards and, when old and new differ, the old key
\* is absent; if old and new normalize to the same path the entry is unchanged; if
\* the old key is absent the store is unchanged
C39_RenameKeepsTheEntry ==
    RenameDone =>
        /\ OldKey \in DOMAIN kvLast.pre.cache =>
              /\ NewKey \in DOMAIN kvCache
              /\ kvCache[NewKey] = kvLast.pre.cache[OldKey]
              /\ OldKey # NewKey => OldKey \notin DOMAIN kvCache
        /\ OldKey = NewKey => kvCache = kvLast.pre.cache
        /\ OldKey \notin DOMAIN kvLast.pre.cache => kvCache = kvLast.pre.cache

\* scan_cache_rename_file('@a', 'p\x', 'p/x') on a table that held @a/p/x: the
\* entry is gone
C39_Witness ==
    /\ RenameDone
    /\ kvLast.op = "scan_cache_rename_file"
    /\ kvLast.renames[1] = RenameRec(ModA, RelBackslash, RelSlash)
    /\ CacheKeyToBytes(ModA, RelSlash) \in DOMAIN kvLast.pre.cache
    /\ CacheKeyToBytes(ModA, RelSlash) \notin DOMAIN kvCache

----------------------------------------------------------------------------
(* The executor's path check against the store's: sync/execute.rs 14-29 and        *)
(* fleet-persistence paths.rs 9-23, on plans of one action                         *)

RelBackAbsolute == <<"\\", "x">>
RelDotFirst == <<".", "/", "x">>

\* the paths an action of the plan may name
ProbePaths == {RelX, RelDoubleDots, RelDotFirst, RelDot, RelTraversal, RelAbsolute,
               RelBackAbsolute, RelDrive}

\* plans of one action: a delete of the path, a rename from or to it, a download of
\* it into the mod @a
ProbePlans ==
    {[deletes |-> <<DeleteAction(path)>>, renames |-> <<>>, downloads |-> <<>>] :
        path \in ProbePaths}
    \cup {[deletes |-> <<>>, renames |-> <<RenameAction(path, RelX)>>, downloads |-> <<>>] :
             path \in ProbePaths \ {RelX}}
    \cup {[deletes |-> <<>>, renames |-> <<RenameAction(TgtB, path)>>, downloads |-> <<>>] :
             path \in ProbePaths}
    \cup {[deletes |-> <<>>, renames |-> <<>>, downloads |-> <<DownloadAction(ModA, path)>>] :
             path \in ProbePaths}

\* an engine call with such a plan, on a root that holds a file at a..b
ProbeInit ==
    /\ StoreIdle
    /\ OrchIdle
    /\ DiffIdle
    /\ PlanIdle
    /\ SyncIdle /\ OpenIdle /\ KvIdle /\ StaleIdle /\ TrkIdle
    /\ dlReqs = <<>> /\ dl = <<>> /\ dlConc = MaxConcurrency /\ dlPre = NoFiles
    /\ dlEvents = <<>>
    /\ paths = [p \in {TgtB, RelDoubleDots} |-> IF p = TgtB THEN 1 ELSE 2]
    /\ inodes = <<OldBytes, OldBytes>>
    /\ engCall \in
          {[op |-> "plan_and_execute", plan |-> pl, remote_manifest |-> Some(ManifestTwo)] :
              pl \in ProbePlans}
          \cup {[op |-> "execute_with_plan", plan |-> pl, remote_manifest |-> NoneV] :
                   pl \in ProbePlans}
    /\ engPc = "idle"
    /\ engK = 1
    /\ stats = NoStats
    /\ execRet = NoResult
    /\ engRet = NoResult
    /\ manifestFile = NoneV
    /\ summaryFile = NoneV
    /\ engPre = [files |-> Snapshot, manifest |-> manifestFile, summary |-> summaryFile]
    /\ renLog = NoRename

SpecExecPaths == ProbeInit /\ [][EngNext]_vars

\* the rejection rule in the claim's words
StartsAbsolute(path) == Len(path) > 0 /\ path[1] \in {"/", "\\"}
HasDrivePrefix(path) == Len(path) > 1 /\ path[2] = ":"
HasDotSegment(path) ==
    \E i \in 1..Len(Split(path, "/")) : Split(path, "/")[i] \in {<<".">>, <<".", ".">>}
MustReject(path) == StartsAbsolute(path) \/ HasDrivePrefix(path) \/ HasDotSegment(path)

\* the relative paths the plan of the call hands to the executor
PlanPaths ==
    {engCall.plan.deletes[i].path : i \in 1..Len(engCall.plan.deletes)}
        \cup UNION {{engCall.plan.renames[i].old_path, engCall.plan.renames[i].new_path} :
                       i \in 1..Len(engCall.plan.renames)}
        \cup {engCall.plan.downloads[i].rel_path : i \in 1..Len(engCall.plan.downloads)}

ExecutorRefused == execRet = Result("Execution", "Security")
ExecutorReturned == execRet # NoResult

\* C37: path validation rejects a relative path iff it starts with '/' or '\', has
\* a drive-letter prefix or has a '/'-delimited segment equal to '.' or '..'; a name
\* that merely contains '..' is accepted; the executor's check and the store's check
\* accept exactly the same paths, so the executor performs a delete, rename or
\* download of a..b
C37_ExecutorAndStoreAcceptTheSamePaths ==
    /\ \A path \in PlanPaths : StoreValidateRelativePath(path) <=> ~ MustReject(path)
    /\ ExecutorReturned =>
          (ExecutorRefused <=> \E path \in PlanPaths : ~ StoreValidateRelativePath(path))
    /\ ExecutorReturned /\ engCall.plan.deletes = <<DeleteAction(RelDoubleDots)>> =>
          ~ Exists(RelDoubleDots) /\ stats.files_deleted = 1

\* the executor refused the delete of a..b, a path the store accepts, and the file
\* is still there
C37_Witness ==
    /\ engCall.plan.deletes = <<DeleteAction(RelDoubleDots)>>
    /\ ExecutorRefused
    /\ StoreValidateRelativePath(RelDoubleDots)
    /\ Exists(RelDoubleDots)

----------------------------------------------------------------------------
(* A plan that is executed after the repository has changed: engine.rs 232-314,  *)
(* with the root, the repository and the baseline of the sync specification       *)

MaxStaleCalls == 3     \* engine calls and repository changes per run

\* the repository as served: @a/x; @a/x with other content; @a/x and @a/a
StaleRemotes ==
    { <<Mod(ModA, <<File(RelX, <<"A">>, <<>>)>>)>>,
      <<Mod(ModA, <<File(RelX, <<"b">>, <<>>)>>)>>,
      <<Mod(ModA, <<File(RelX, <<"A">>, <<>>), File(<<"a">>, <<"b">>, <<>>)>>)>> }

StaleCall(op, kind, committed, planned) ==
    [op |-> op, kind |-> kind, committed |-> committed, planned |-> planned]

StaleInit ==
    /\ StoreIdle /\ DlIdle /\ EngIdle /\ OrchIdle /\ DiffIdle /\ PlanIdle /\ OpenIdle /\ KvIdle /\ TrkIdle
    /\ StaleIdle
    /\ syncRemote \in StaleRemotes
    /\ tree \in SyncTrees
    /\ scanCache = NoFiles
    /\ baseManifest = NoneV
    /\ baseSummary = NoneV
    /\ syncLast = Last("None", "None", "None", EmptySyncPlan, FALSE, FALSE, LocalErr, NoPrev)
    /\ fsNow = 1

\* the repository serves the file of a download with the content the plan expects
Served(served, action) ==
    \E i \in 1..Len(served) :
        /\ served[i].name = action.mod_name
        /\ \E j \in 1..Len(served[i].files) :
              /\ FleetPathNormalize(served[i].files[j].path) = FleetPathNormalize(action.rel_path)
              /\ served[i].files[j].checksum = action.expected_checksum

\* the sets of downloads that can fail while the repository serves `served`: a
\* download whose file is not served with the expected checksum fails its
\* verification on every attempt
FailedSetsServed(plan, served) ==
    {f \in FailedSets(plan) :
        \A i \in 1..Len(plan.downloads) : ~ Served(served, plan.downloads[i]) => i \in f}

\* execute_with_plan_internal: nothing for an empty plan; else the executor, then
\* manifest_to_save (the manifest passed in, or the one fetch_remote returns now),
\* the save of the manifest and of the summary computed from it
ExecuteInternal(op, plan, remote_manifest, planned) ==
    IF Len(plan.deletes) = 0 /\ Len(plan.renames) = 0 /\ Len(plan.downloads) = 0
    THEN /\ staleLast' = StaleCall(op, "Ok", FALSE, planned)
         /\ UNCHANGED <<tree, baseManifest, baseSummary>>
    ELSE \E failed \in FailedSetsServed(plan, syncRemote') :
         \E after \in {ExecuteOnTree(tree, plan, failed, fsNow + 1)} :
            /\ tree' = after
            /\ IF failed # {}
               THEN /\ staleLast' = StaleCall(op, "Execution", FALSE, planned)
                    /\ UNCHANGED <<baseManifest, baseSummary>>
               ELSE \E manifest_to_save \in
                           {IF remote_manifest # NoneV THEN Get(remote_manifest)
                            ELSE FetchedManifest(syncRemote')} :
                        /\ baseManifest' = Some(manifest_to_save)
                        /\ baseSummary' = Some(SummaryOfManifest(after, manifest_to_save))
                        /\ staleLast' = StaleCall(op, "Ok", TRUE, planned)

\* DefaultSyncEngine::plan, whose caller keeps the plan
StalePlan(mode) ==
    /\ fsNow <= MaxStaleCalls
    /\ fsNow' = fsNow + 1
    /\ \E manifest \in {FetchedManifest(syncRemote)},
          local \in {local_state(mode, tree, scanCache, baseManifest, baseSummary)} :
           IF local.kind # "Ok"
           THEN /\ staleLast' = StaleCall("plan", "Local", FALSE, NoneV)
                /\ UNCHANGED heldPlan
           ELSE /\ heldPlan' = Some([plan |-> diff(manifest, local.manifest),
                                     manifest |-> manifest])
                /\ staleLast' = StaleCall("plan", "Ok", FALSE, Some(manifest))
    /\ UNCHANGED <<tree, scanCache, baseManifest, baseSummary, syncRemote, syncLast,
                   storeVars, dlVars, engVars, orchVars, diffVars, planVars, openVars, kvVars,
                   trkVars>>

\* the repository publishes another version
RemoteChange(served) ==
    /\ fsNow <= MaxStaleCalls
    /\ fsNow' = fsNow + 1
    /\ served # syncRemote
    /\ syncRemote' = served
    /\ UNCHANGED <<tree, scanCache, baseManifest, baseSummary, syncLast, staleVars,
                   storeVars, dlVars, engVars, orchVars, diffVars, planVars, openVars, kvVars,
                   trkVars>>

\* DefaultSyncEngine::execute_with_plan on the plan the caller kept
ExecuteWithPlan ==
    /\ fsNow <= MaxStaleCalls
    /\ fsNow' = fsNow + 1
    /\ heldPlan # NoneV
    /\ syncRemote' = syncRemote
    /\ ExecuteInternal("execute_with_plan", Get(heldPlan).plan, NoneV,
                       Some(Get(heldPlan).manifest))
    /\ UNCHANGED <<scanCache, syncLast, heldPlan,
                   storeVars, dlVars, engVars, orchVars, diffVars, planVars, openVars, kvVars,
                   trkVars>>

\* DefaultSyncEngine::plan_and_execute, during which the repository may publish
\* another version (served) after the fetch
StalePlanAndExecute(mode, served) ==
    /\ fsNow <= MaxStaleCalls
    /\ fsNow' = fsNow + 1
    /\ syncRemote' = served
    /\ \E manifest \in {FetchedManifest(syncRemote)},
          local \in {local_state(mode, tree, scanCache, baseManifest, baseSummary)} :
           IF local.kind # "Ok"
           THEN /\ staleLast' = StaleCall("plan_and_execute", "Local", FALSE, NoneV)
                /\ UNCHANGED <<tree, baseManifest, baseSummary>>
           ELSE ExecuteInternal("plan_and_execute", diff(manifest, local.manifest),
                                Some(manifest), Some(manifest))
    /\ UNCHANGED <<scanCache, syncLast, heldPlan,
                   storeVars, dlVars, engVars, orchVars, diffVars, planVars, openVars, kvVars,
                   trkVars>>

StaleNext ==
    \/ \E mode \in SyncModes : StalePlan(mode)
    \/ \E served \in StaleRemotes : RemoteChange(served)
    \/ ExecuteWithPlan
    \/ \E mode \in SyncModes, served \in StaleRemotes : StalePlanAndExecute(mode, served)

SpecStale == StaleInit /\ [][StaleNext]_vars

\* the files the baseline summary records as present: (mod, path, checksum) of the
\* entries whose mtime is not 0
RecordedPresent ==
    UNION {{<<baseSummary[1][i].mod_name, baseSummary[1][i].files[j].rel_path,
              baseSummary[1][i].files[j].checksum>> :
                j \in {k \in 1..Len(baseSummary[1][i].files) :
                          baseSummary[1][i].files[k].mtime # 0}} :
              i \in 1..Len(baseSummary[1])}

\* C38: after a successful commit by plan_and_execute or execute_with_plan the
\* persisted baseline manifest is the remote manifest against which the executed
\* plan was computed, so every file the baseline summary records with a checksum c
\* and a non-zero mtime is on disk with content of checksum c, also when the
\* repository changes between planning and execution or the plan given to
\* execute_with_plan is older than the current repository
C38_BaselineIsThePlannedManifest ==
    staleLast.committed =>
        /\ baseManifest = staleLast.planned
        /\ \A rec \in RecordedPresent :
              /\ <<rec[1], rec[2]>> \in DOMAIN tree
              /\ tree[<<rec[1], rec[2]>>].hash = rec[3]

\* execute_with_plan committed a plan computed when the repository served @a/x
\* with checksum A, the baseline names checksum b for @a/x, and the file on disk
\* has the content A
C38_Witness ==
    /\ staleLast.op = "execute_with_plan" /\ staleLast.committed
    /\ staleLast.planned = Some(<<Mod(ModA, <<File(RelX, <<"A">>, <<>>)>>)>>)
    /\ baseManifest = Some(<<Mod(ModA, <<File(RelX, <<"b">>, <<>>)>>)>>)
    /\ <<ModA, RelX, <<"b">>>> \in RecordedPresent
    /\ tree[<<ModA, RelX>>].hash = <<"A">>

----------------------------------------------------------------------------
(* The progress tracker fed by a download batch: fleet-pipeline tracker.rs,       *)
(* net/mod.rs download_single, orchestrator.rs 426-460                            *)

MaxTrkFiles == 2       \* downloads per plan
MaxTrkSize == 2        \* largest size of a download, in bytes
MaxTrkBacklog == 1     \* events the channel holds before a send waits
HistoryLen == 5        \* speed samples kept by get_snapshot

Started(id, total_bytes) == [ev |-> "Started", id |-> id, n |-> total_bytes, success |-> FALSE]
Progress(id, bytes_delta) == [ev |-> "Progress", id |-> id, n |-> bytes_delta, success |-> FALSE]
Completed(id, success) == [ev |-> "Completed", id |-> id, n |-> 0, success |-> success]

RECURSIVE SumSeq(_)
SumSeq(q) == IF q = <<>> THEN 0 ELSE Head(q) + SumSeq(Tail(q))

\* ProgressTracker::new: ids are the indices of plan.downloads, from 0
TrackerNew(sizes) ==
    [in_flight |-> <<>>,
     downloaded_files |-> 0,
     failed_count |-> 0,
     current_downloaded_bytes |-> 0,
     total_files |-> Len(sizes),
     total_bytes |-> SumSeq(sizes),
     bytes_since_last_tick |-> 0,
     speed_bps |-> 0,
     history |-> <<>>]

\* ProgressTracker::update
TrackerUpdate(t, event) ==
    CASE event.ev = "Started" ->
            IF event.id \in 0..(t.total_files - 1)
            THEN [t EXCEPT !.in_flight =
                     [id \in DOMAIN t.in_flight \cup {event.id} |->
                         IF id = event.id THEN [bytes_downloaded |-> 0, total_bytes |-> event.n]
                         ELSE t.in_flight[id]]]
            ELSE t
      [] event.ev = "Progress" ->
            [t EXCEPT !.bytes_since_last_tick = @ + event.n,
                      !.current_downloaded_bytes = @ + event.n,
                      !.in_flight =
                          [id \in DOMAIN t.in_flight |->
                              IF id = event.id
                              THEN [t.in_flight[id] EXCEPT !.bytes_downloaded = @ + event.n]
                              ELSE t.in_flight[id]]]
      [] event.ev = "Completed" ->
            [t EXCEPT !.in_flight = [id \in DOMAIN t.in_flight \ {event.id} |-> t.in_flight[id]],
                      !.downloaded_files = IF event.success THEN @ + 1 ELSE @,
                      !.failed_count = IF event.success THEN @ ELSE @ + 1]

\* history.push_back(current_bps); if history.len() > 5 { history.pop_front() }
PushSampleCapped(history, bps) ==
    IF Len(history) + 1 > HistoryLen THEN Tail(Append(history, bps)) ELSE Append(history, bps)

\* ProgressTracker::get_snapshot, `elapsed` whole seconds after the last tick (0: less
\* than half a second)
TrackerGetSnapshot(t, elapsed) ==
    IF elapsed = 0 THEN t
    ELSE LET history == PushSampleCapped(t.history, t.bytes_since_last_tick \div elapsed)
         IN  [t EXCEPT !.history = history,
                       !.speed_bps = SumSeq(history) \div Len(history),
                       !.bytes_since_last_tick = 0]

\* the plans: downloads of the largest size, the first of a plan of several one byte long
TrkPlans ==
    {[i \in 1..n |-> IF i = 1 /\ n > 1 THEN 1 ELSE MaxTrkSize] : n \in 1..MaxTrkFiles}

TrkState(pc, attempt, success) == [pc |-> pc, attempt |-> attempt, success |-> success]

TrkInit ==
    /\ StoreIdle /\ DlIdle /\ EngIdle /\ OrchIdle /\ DiffIdle /\ PlanIdle /\ SyncIdle /\ OpenIdle
    /\ KvIdle /\ StaleIdle
    /\ trkPlan \in TrkPlans
    /\ trkDl = [i \in 1..Len(trkPlan) |-> TrkState("queued", 1, FALSE)]
    /\ trkChan = <<>>
    /\ tracker = TrackerNew(trkPlan)
    /\ trkFed = [started |-> {}, completed |-> {}]

\* tx.send(event).await: the event is queued once the channel has room
TrkSend(events) ==
    /\ Len(trkChan) + Len(events) <= MaxTrkBacklog
    /\ trkChan' = trkChan \o events

\* download_single begins: Started{id, total_bytes: expected_size}
TrkStart(i) ==
    /\ trkDl[i].pc = "queued"
    /\ trkDl' = [trkDl EXCEPT ![i].pc = "attempt"]
    /\ TrkSend(<<Started(i - 1, trkPlan[i])>>)
    /\ UNCHANGED <<trkPlan, tracker, trkFed, nonTrkVars>>

\* one pass of the attempt loop. no_body: the GET, the status or File::create
\* failed; partial: the stream broke after some bytes; unverified: the whole body was
\* written and its checksum differs; rename_failed: verified, not renamed; renamed:
\* success. The bytes written are reported by the Progress flushed at the end of
\* the stream
TrkAttempt(i, outcome) ==
    /\ trkDl[i].pc = "attempt"
    /\ outcome = "partial" => trkPlan[i] > 1
    /\ TrkSend(CASE outcome = "no_body" -> <<>>
                 [] outcome = "partial" -> <<Progress(i - 1, trkPlan[i] - 1)>>
                 [] OTHER -> <<Progress(i - 1, trkPlan[i])>>)
    /\ trkDl' = [trkDl EXCEPT ![i] =
                    IF outcome = "renamed" THEN TrkState("finish", trkDl[i].attempt, TRUE)
                    ELSE IF trkDl[i].attempt < MaxAttempts
                    THEN TrkState("attempt", trkDl[i].attempt + 1, FALSE)
                    ELSE TrkState("finish", trkDl[i].attempt, FALSE)]
    /\ UNCHANGED <<trkPlan, tracker, trkFed, nonTrkVars>>

\* download_single ends: Completed{id, success}
TrkFinish(i) ==
    /\ trkDl[i].pc = "finish"
    /\ trkDl' = [trkDl EXCEPT ![i].pc = "done"]
    /\ TrkSend(<<Completed(i - 1, trkDl[i].success)>>)
    /\ UNCHANGED <<trkPlan, tracker, trkFed, nonTrkVars>>

\* the orchestrator's loop receives an event: tracker.update(ev), then
\* tracker.get_snapshot()
TrkReceive(elapsed) ==
    /\ trkChan # <<>>
    /\ trkChan' = Tail(trkChan)
    /\ tracker' = TrackerGetSnapshot(TrackerUpdate(tracker, Head(trkChan)), elapsed)
    /\ trkFed' = CASE Head(trkChan).ev = "Started" ->
                        [trkFed EXCEPT !.started = @ \cup {Head(trkChan).id}]
                   [] Head(trkChan).ev = "Completed" ->
                        [trkFed EXCEPT !.completed = @ \cup {Head(trkChan).id}]
                   [] OTHER -> trkFed
    /\ UNCHANGED <<trkPlan, trkDl, nonTrkVars>>

TrkNext ==
    \/ \E i \in 1..Len(trkDl) : TrkStart(i)
    \/ \E i \in 1..Len(trkDl),
          outcome \in {"no_body", "partial", "unverified", "rename_failed", "renamed"} :
          TrkAttempt(i, outcome)
    \/ \E i \in 1..Len(trkDl) : TrkFinish(i)
    \/ \E elapsed \in 0..1 : TrkReceive(elapsed)

SpecTracker == TrkInit /\ [][TrkNext]_vars

BatchOver == trkChan = <<>> /\ \A i \in 1..Len(trkDl) : trkDl[i].pc = "done"

\* C40: for any progress-event sequence of a download batch, retries and failed
\* downloads included, downloaded_files + failed_count + the number of in-flight
\* records is at most total_files and downloaded_bytes is at most total_bytes,
\* in_flight holds exactly the ids started and not yet completed, after the last
\* Completed in_flight is empty and downloaded_files + failed_count = total_files,
\* and the speed history never holds more than 5 samples
C40_TrackerStaysWithinTotals ==
    /\ tracker.downloaded_files + tracker.failed_count + Cardinality(DOMAIN tracker.in_flight)
           <= tracker.total_files
    /\ tracker.current_downloaded_bytes <= tracker.total_bytes
    /\ DOMAIN tracker.in_flight = trkFed.started \ trkFed.completed
    /\ BatchOver =>
          /\ DOMAIN tracker.in_flight = {}
          /\ tracker.downloaded_files + tracker.failed_count = tracker.total_files
    /\ Len(tracker.history) <= 5

\* the one download of 2 bytes was written in full twice, the second time with
\* success: the tracker counts 4 bytes downloaded of 2
C40_Witness ==
    /\ trkPlan = <<2>>
    /\ BatchOver
    /\ trkDl[1].success /\ trkDl[1].attempt = 2
    /\ tracker.downloaded_files = 1
    /\ tracker.total_bytes = 2
    /\ tracker.current_downloaded_bytes = 4

====
